---- MODULE Spec2Model ----
(***************************************************************************)
(* A model of the claude-skills installer CLI (src/cli): the Catalog       *)
(* Client (fetchSkills), the Bundle Installer (installSkills), the Host    *)
(* Settings Patcher (setupHook), the Instruction Document Patcher          *)
(* (setupClaudeMd) and the command line driver (main).                     *)
(*                                                                         *)
(* Text is modelled as a sequence of tokens, a JSON / JavaScript value as  *)
(* a record [t, v, p] (type tag, payload or array elements, named          *)
(* properties in insertion order), a file as a record with an `exists'     *)
(* field.                                                                  *)
(***************************************************************************)
EXTENDS Integers, Sequences, FiniteSets, TLC

VARIABLES
    \* ---- the project tree -------------------------------------------
    claudeMd,       \* <root>/CLAUDE.md
    settingsFile,   \* <root>/.claude/settings.json
    hookFile,       \* <root>/.claude/hooks/skill-forced-eval-hook.sh
    skillDir,       \* per directory name: state of <root>/.claude/skills/<name>
    skillFile,      \* per directory name: <root>/.claude/skills/<name>/SKILL.md
    fsWrites,       \* the files written since the start of the current run
    skillInit,      \* the SKILL.md files before anything ran
    \* ---- setupClaudeMd ----------------------------------------------
    mdCalls,        \* completed setupClaudeMd calls
    mdInit,         \* CLAUDE.md before the first call
    mdLog,          \* what the last call printed
    \* ---- setupHook --------------------------------------------------
    targetDir,      \* the project root the hook is set up for
    hookPc,         \* position inside setupHook
    hookCalls,      \* started setupHook calls
    hookOutcomes,   \* outcome of every finished call, in order
    settingsInit,   \* settings.json before the first call
    settingsBefore, \* settings.json when the current call started
    settingsWrites, \* writes of settings.json by the current call
    hookLog,        \* what the last call printed
    \* ---- fetchSkills ------------------------------------------------
    env,            \* process.env: GITHUB_TOKEN and GH_TOKEN
    ghCli,          \* what running `gh auth token' comes to
    headers,        \* the headers getAuthHeaders returned
    ghExecs,        \* executions of `gh auth token' by the current call
    requests,       \* the requests sent, in order: target and headers
    listResp,       \* the response to the directory listing request
    fetchPc,        \* position inside fetchSkills
    tasks,          \* per directory of the listing: state of its fetch
    results,        \* the array Promise.all resolves to
    settleOrder,    \* indices of the per-directory fetches, in settling order
    warnings,       \* console.warn lines, in order
    fetchErr,       \* the error fetchSkills threw, if any
    fetched,        \* the list fetchSkills returned
    \* ---- installSkills ----------------------------------------------
    selected,       \* the descriptors handed to installSkills
    installPc,      \* position inside installSkills
    installIdx,     \* index of the loop over `selected'
    installErr,     \* the directory name whose write threw, or ""
    installLog,     \* directory names reported as installed, in order
    installRuns,    \* completed installSkills calls
    afterFirst,     \* the SKILL.md files after the first completed call
    \* ---- the generated hook script ----------------------------------
    projEnv,        \* CLAUDE_PROJECT_DIR in the environment of the script
    strayFile,      \* SKILL.md files elsewhere below the project root
    unreadable,     \* directory names whose SKILL.md cannot be read
    treeChanges,    \* changes made to the bundles since the hook was set up
    scriptPc,       \* position inside the script
    found,          \* the lines find printed, in its order
    paths,          \* the lines the loop of the script still has to read
    listed,         \* the paths whose bundle was added to SKILL_LIST, in order
    skillList,      \* $SKILL_LIST
    stdout,         \* what the script has written to standard output
    lastStatus,     \* $? when the script reaches `exit'
    exitStatus,     \* exit status of the script, -1 while it runs
    \* ---- main -------------------------------------------------------
    mainPc,         \* position inside main ("lib": an operation called directly)
    promptImpl,     \* which promptSkillSelection the run uses
    exitCode        \* process exit code, -1 while running

fsVars      == <<claudeMd, settingsFile, hookFile, skillDir, skillFile, fsWrites, skillInit>>
mdVars      == <<mdCalls, mdInit, mdLog>>
hookVars    == <<targetDir, hookPc, hookCalls, hookOutcomes, settingsInit,
                 settingsBefore, settingsWrites, hookLog>>
fetchVars   == <<env, ghCli, headers, ghExecs, requests, listResp, fetchPc, tasks,
                 results, settleOrder, warnings, fetchErr, fetched>>
installVars == <<selected, installPc, installIdx, installErr, installLog,
                 installRuns, afterFirst>>
mainVars    == <<mainPc, promptImpl, exitCode>>
scriptVars  == <<projEnv, strayFile, unreadable, treeChanges, scriptPc, found, paths, listed,
                 skillList, stdout, lastStatus, exitStatus>>
vars        == <<fsVars, mdVars, hookVars, fetchVars, installVars, mainVars, scriptVars>>

(***************************************************************************)
(* Bounds of the model.                                                    *)
(***************************************************************************)
MaxMdLen     == 3   \* tokens of the initial CLAUDE.md
MaxMdCalls   == 2   \* consecutive setupClaudeMd calls
MaxUpsLen    == 2   \* entries of the initial hooks.UserPromptSubmit array
MaxHookCalls == 2   \* consecutive setupHook calls
MaxListing   == 3   \* entries of the directory listing
MaxSelected  == 2   \* descriptors handed to installSkills
MaxInstallRuns == 2 \* consecutive installSkills calls
MaxAuthListing == 3   \* catalog entries of a run that looks at the credential
MaxCatalog   == 3   \* entries of the listing in a run of main
MaxPreLen    == 2   \* entries of the initial hooks.PreToolUse array
MaxBodyLines == 4   \* lines of a SKILL.md handed to parseFrontmatter
MaxTreeChanges == 2 \* bundles installed, removed or protected after setupHook

(***************************************************************************)
(* Text helpers (JavaScript String methods on token sequences).            *)
(***************************************************************************)
RECURSIVE SeqsUpTo(_, _)
SeqsUpTo(S, n) ==
    IF n = 0 THEN {<<>>}
    ELSE LET shorter == SeqsUpTo(S, n - 1)
         IN  shorter \cup {Append(s, c) : s \in {x \in shorter : Len(x) = n - 1}, c \in S}

\* String.prototype.startsWith at position i
MatchesAt(s, sub, i) ==
    /\ i + Len(sub) - 1 <= Len(s)
    /\ SubSeq(s, i, i + Len(sub) - 1) = sub

\* String.prototype.includes
Includes(s, sub) == \E i \in 1..(Len(s) + 1) : MatchesAt(s, sub, i)

\* String.prototype.endsWith
EndsWith(s, suffix) ==
    /\ Len(suffix) <= Len(s)
    /\ SubSeq(s, Len(s) - Len(suffix) + 1, Len(s)) = suffix

Occurrences(s, sub) == Cardinality({i \in 1..(Len(s) + 1) : MatchesAt(s, sub, i)})

WhiteSpace == {" ", "\n"}

RECURSIVE TrimEnd(_)
TrimEnd(s) ==
    IF s # <<>> /\ s[Len(s)] \in WhiteSpace THEN TrimEnd(SubSeq(s, 1, Len(s) - 1)) ELSE s

RECURSIVE TrimStart(_)
TrimStart(s) ==
    IF s # <<>> /\ s[1] \in WhiteSpace THEN TrimStart(Tail(s)) ELSE s

NoFile == [exists |-> FALSE, data |-> <<>>]
TextFile(s) == [exists |-> TRUE, data |-> s]

(***************************************************************************)
(* Instruction Document Patcher: setupClaudeMd.                            *)
(***************************************************************************)
MdTokens == {"skill_evaluation", ":", " ", "\n", "x"}

\* The rule block: a leading newline, the marker line, the rule text.
SKILL_EVAL_BLOCK == <<"\n", "skill_evaluation", ":", "\n", " ", "rule">>

MARKER == <<"skill_evaluation", ":">>

\* (the document taken for absent without being read)
ReadNothing(file) == <<>>

\* (a marker looked for at the start of the document only)
MarkerAtStart(existing) == MatchesAt(existing, MARKER, 1)

\* readFile inside try/catch: any failure leaves existing = ""
ReadOrEmpty(file) == IF file.exists THEN file.data ELSE <<>>

\* (a check for a marker the block does not contain)
HasMarkerMisspelled(existing) == Includes(existing, <<"skill_evaluation", " ", ":">>)

\* "Don't add duplicate block"
HasMarker(existing) == Includes(existing, MARKER)

\* (the separator and the block appended whatever the document holds)
PatchedWithSeparator(existing) ==
    TrimEnd(existing) \o <<"\n">> \o SKILL_EVAL_BLOCK \o <<"\n">>

\* lines 35-38: const content = trimmed.length > 0 ? ... : ...
PatchedMd(existing) ==
    LET trimmed == TrimEnd(existing)
    IN  IF Len(trimmed) > 0
        THEN trimmed \o <<"\n">> \o SKILL_EVAL_BLOCK \o <<"\n">>
        ELSE TrimStart(SKILL_EVAL_BLOCK) \o <<"\n">>

setupClaudeMdBody ==
    LET existing == ReadOrEmpty(claudeMd)
    IN  /\ mdCalls' = mdCalls + 1
        /\ IF HasMarker(existing)
           THEN /\ mdLog' = "skipped"
                /\ UNCHANGED <<claudeMd, fsWrites>>
           ELSE /\ claudeMd' = TextFile(PatchedMd(existing))
                /\ fsWrites' = fsWrites \cup {"CLAUDE.md"}
                /\ mdLog' = "updated"
        /\ UNCHANGED <<mdInit, settingsFile, hookFile, skillDir, skillFile, skillInit>>

\* setupClaudeMd called directly, any number of times in a row
setupClaudeMd ==
    /\ mainPc = "lib"
    /\ mdCalls < MaxMdCalls
    /\ setupClaudeMdBody
    /\ UNCHANGED <<hookVars, fetchVars, installVars, mainVars>>
    /\ UNCHANGED scriptVars

(***************************************************************************)
(* JavaScript values, as JSON.parse builds them and the code handles them. *)
(* t: type tag; v: string tokens, <<number>>, <<boolean>> or the elements  *)
(* of an array; p: the named properties, <<key, value>> pairs in insertion *)
(* order (an array's named properties are not its elements).               *)
(***************************************************************************)
Undef      == [t |-> "undef", v |-> <<>>, p |-> <<>>]
JNull      == [t |-> "null", v |-> <<>>, p |-> <<>>]
JBool(b)   == [t |-> "bool", v |-> <<b>>, p |-> <<>>]
JNum(n)    == [t |-> "num", v |-> <<n>>, p |-> <<>>]
JStr(s)    == [t |-> "str", v |-> s, p |-> <<>>]
JArr(es)   == [t |-> "arr", v |-> es, p |-> <<>>]
JObj(ms)   == [t |-> "obj", v |-> <<>>, p |-> ms]

IsNullish(x) == x.t \in {"undef", "null"}

\* ToBoolean
Truthy(x) ==
    CASE x.t \in {"undef", "null"} -> FALSE
      [] x.t = "bool" -> x.v[1]
      [] x.t = "num"  -> x.v[1] # 0
      [] x.t = "str"  -> x.v # <<>>
      [] OTHER        -> TRUE

IsArray(x) == x.t = "arr"

HasProp(x, k) == \E i \in 1..Len(x.p) : x.p[i][1] = k
PropIndex(x, k) == CHOOSE i \in 1..Len(x.p) : x.p[i][1] = k

\* x.k for a non-nullish x (the keys read here are no built-in properties)
Prop(x, k) == IF HasProp(x, k) THEN x.p[PropIndex(x, k)][2] ELSE Undef

\* x.k = val in strict mode (an ES module): a TypeError unless x is an object
CanSetProp(x) == x.t \in {"obj", "arr"}
SetProp(x, k, val) ==
    IF HasProp(x, k)
    THEN [x EXCEPT !.p[PropIndex(x, k)] = <<k, val>>]
    ELSE [x EXCEPT !.p = Append(x.p, <<k, val>>)]

\* JSON.stringify: the value that the written text denotes. Named properties
\* of an array and undefined members are not serialized.
RECURSIVE Serialized(_)
Serialized(x) ==
    CASE x.t = "arr" ->
           [t |-> "arr",
            v |-> [i \in 1..Len(x.v) |->
                      IF x.v[i].t = "undef" THEN JNull ELSE Serialized(x.v[i])],
            p |-> <<>>]
      [] x.t = "obj" ->
           LET kept == SelectSeq(x.p, LAMBDA m : m[2].t # "undef")
           IN  [t |-> "obj", v |-> <<>>,
                p |-> [i \in 1..Len(kept) |-> <<kept[i][1], Serialized(kept[i][2])>>]]
      [] OTHER -> x

\* A settings.json: whether its text is valid JSON, how it is formatted,
\* and the value it denotes.
NoSettings == [exists |-> FALSE, valid |-> FALSE, fmt |-> "none", val |-> Undef]
JsonText(fmt, val) == [exists |-> TRUE, valid |-> TRUE, fmt |-> fmt, val |-> val]
BadText(kind) == [exists |-> TRUE, valid |-> FALSE, fmt |-> kind, val |-> Undef]

\* JSON.stringify(settings, null, 2) + "\n"
Stringify2(x) == JsonText("indent2", Serialized(x))

NoHookFile == [exists |-> FALSE, content |-> "none", mode |-> "none"]

(***************************************************************************)
(* Host Settings Patcher: setupHook.                                       *)
(***************************************************************************)
HOOK_FILENAME == <<"skill-forced-eval-hook.sh">>

\* join(resolve(targetDir), ".claude", "hooks", HOOK_FILENAME)
HookPath(root) == <<root, "/.claude/hooks/">> \o HOOK_FILENAME

CommandHandler(cmd) ==
    JObj(<< <<"type", JStr(<<"command">>)>>, <<"command", JStr(cmd)>> >>)

\* (the registration handed over without the entry that wraps it)
BareHandler(hookPath) == CommandHandler(hookPath)

\* const hookEntry = { hooks: [{ type: "command", command: hookPath }] }
HookEntry(hookPath) == JObj(<< <<"hooks", JArr(<<CommandHandler(hookPath)>>)>> >>)

\* h.command?.endsWith(HOOK_FILENAME): "true", "false" or "throw"
HandlerMatches(h) ==
    IF IsNullish(h) THEN "throw"
    ELSE LET c == Prop(h, "command")
         IN  IF IsNullish(c) THEN "false"
             ELSE IF c.t # "str" THEN "throw"
             ELSE IF EndsWith(c.v, HOOK_FILENAME) THEN "true" ELSE "false"

\* Array.prototype.some over hs[i..], stopping at the first match or throw
RECURSIVE SomeHandler(_, _)
SomeHandler(hs, i) ==
    IF i > Len(hs) THEN "false"
    ELSE LET r == HandlerMatches(hs[i])
         IN  IF r = "false" THEN SomeHandler(hs, i + 1) ELSE r

\* entry.hooks?.some(...)
EntryMatches(entry) ==
    IF IsNullish(entry) THEN "throw"
    ELSE LET hs == Prop(entry, "hooks")
         IN  IF IsNullish(hs) THEN "false"
             ELSE IF hs.t # "arr" THEN "throw"
             ELSE SomeHandler(hs.v, 1)

NeverInstalled(es, i) == "false"

\* settings.hooks.UserPromptSubmit.some(...) over es[i..]
RECURSIVE SomeEntry(_, _)
SomeEntry(es, i) ==
    IF i > Len(es) THEN "false"
    ELSE LET r == EntryMatches(es[i])
         IN  IF r = "false" THEN SomeEntry(es, i + 1) ELSE r

Threw == [threw |-> TRUE, settings |-> Undef]
Patched(x) == [threw |-> FALSE, settings |-> x]

\* let settings = {}; try { settings = JSON.parse(await readFile(...)) } catch {}
ParseOrFresh(file) ==
    IF file.exists /\ file.valid THEN file.val ELSE JObj(<<>>)

\* if (!settings.hooks) settings.hooks = {}
EnsureHooks(settings) ==
    IF IsNullish(settings) THEN Threw
    ELSE IF Truthy(Prop(settings, "hooks")) THEN Patched(settings)
    ELSE IF CanSetProp(settings) THEN Patched(SetProp(settings, "hooks", JObj(<<>>)))
    ELSE Threw

\* the UserPromptSubmit branch, on a settings value whose hooks is truthy
AddRegistration(settings, hookPath) ==
    LET hooks == Prop(settings, "hooks")
        ups   == Prop(hooks, "UserPromptSubmit")
        with(newUps) == SetProp(settings, "hooks",
                                SetProp(hooks, "UserPromptSubmit", newUps))
    IN  IF IsArray(ups)
        THEN LET alreadyInstalled == SomeEntry(ups.v, 1)
             IN  CASE alreadyInstalled = "throw" -> Threw
                   [] alreadyInstalled = "true"  -> Patched(settings)
                   [] OTHER ->
                        Patched(with([ups EXCEPT !.v = Append(ups.v, HookEntry(hookPath))]))
        ELSE IF CanSetProp(hooks)
             THEN Patched(with(JArr(<<HookEntry(hookPath)>>)))
             ELSE Threw

\* lines 57-83: the settings value to write, or a thrown TypeError
PatchSettings(file, hookPath) ==
    LET ensured == EnsureHooks(ParseOrFresh(file))
    IN  IF ensured.threw THEN Threw ELSE AddRegistration(ensured.settings, hookPath)

HOOK_SCRIPT == "HOOK_SCRIPT"

\* the call itself: nothing has run yet
setupHookCall ==
    /\ hookPc = "idle"
    /\ hookPc' = "writeScript"
    /\ hookCalls' = hookCalls + 1
    /\ settingsBefore' = settingsFile
    /\ settingsWrites' = 0
    /\ hookLog' = <<>>
    /\ UNCHANGED <<targetDir, hookOutcomes, settingsInit>>

\* mkdir(hooksDir, {recursive}); writeFile(hookPath, HOOK_SCRIPT, {mode: 0o755})
\* (the mode option only applies to a file that writeFile creates)
HookWriteScript ==
    /\ hookPc = "writeScript"
    /\ hookFile' = [exists |-> TRUE, content |-> HOOK_SCRIPT,
                    mode |-> IF hookFile.exists THEN hookFile.mode ELSE "755"]
    /\ fsWrites' = fsWrites \cup {"hook"}
    /\ hookPc' = "chmod"
    /\ UNCHANGED <<claudeMd, settingsFile, skillDir, skillFile, skillInit>>
    /\ UNCHANGED <<targetDir, hookCalls, hookOutcomes, settingsInit, settingsBefore,
                   settingsWrites, hookLog>>
    /\ UNCHANGED <<mdVars, fetchVars, installVars, mainVars>>
    /\ UNCHANGED scriptVars

\* (the script left with the mode writeFile gave it)
ChmodSkipped ==
    /\ hookPc = "chmod"
    /\ hookPc' = "settings"
    /\ UNCHANGED <<claudeMd, settingsFile, hookFile, skillDir, skillFile, fsWrites, skillInit>>
    /\ UNCHANGED <<targetDir, hookCalls, hookOutcomes, settingsInit, settingsBefore,
                   settingsWrites, hookLog>>
    /\ UNCHANGED <<mdVars, fetchVars, installVars, mainVars>>
    /\ UNCHANGED scriptVars

\* chmod(hookPath, 0o755)
HookChmod ==
    /\ hookPc = "chmod"
    /\ hookFile' = [hookFile EXCEPT !.mode = "755"]
    /\ hookPc' = "settings"
    /\ UNCHANGED <<claudeMd, settingsFile, skillDir, skillFile, fsWrites, skillInit>>
    /\ UNCHANGED <<targetDir, hookCalls, hookOutcomes, settingsInit, settingsBefore,
                   settingsWrites, hookLog>>
    /\ UNCHANGED <<mdVars, fetchVars, installVars, mainVars>>
    /\ UNCHANGED scriptVars

\* lines 56-90: read, parse, patch, write back, report
HookPatchSettings ==
    /\ hookPc = "settings"
    /\ LET r == PatchSettings(settingsFile, HookPath(targetDir))
       IN  IF r.threw
           THEN /\ hookOutcomes' = Append(hookOutcomes, "TypeError")
                /\ UNCHANGED <<settingsFile, fsWrites, settingsWrites, hookLog>>
           ELSE /\ settingsFile' = Stringify2(r.settings)
                /\ fsWrites' = fsWrites \cup {"settings.json"}
                /\ settingsWrites' = settingsWrites + 1
                /\ hookOutcomes' = Append(hookOutcomes, "ok")
                /\ hookLog' = <<"Hook installed", "Settings updated">>
    /\ hookPc' = "idle"
    /\ UNCHANGED <<claudeMd, hookFile, skillDir, skillFile, skillInit>>
    /\ UNCHANGED <<targetDir, hookCalls, settingsInit, settingsBefore>>
    /\ UNCHANGED <<mdVars, fetchVars, installVars, mainVars>>
    /\ UNCHANGED scriptVars

\* setupHook called directly, any number of times in a row
setupHook ==
    /\ mainPc = "lib"
    /\ hookCalls < MaxHookCalls
    /\ setupHookCall
    /\ UNCHANGED <<fsVars, mdVars, fetchVars, installVars, mainVars>>
    /\ UNCHANGED scriptVars

(***************************************************************************)
(* Catalog Client: fetchSkills and parseFrontmatter.                       *)
(* A body is a sequence of lines; a line is [k, v]: its kind ("delim": a    *)
(* line starting with ---, "name" / "description": a line starting with    *)
(* that key and a colon, "blank", "text") and the text after the key.      *)
(***************************************************************************)
Line(k, v) == [k |-> k, v |-> v]

\* the characters of a line, as tokens
LineText(l) ==
    CASE l.k = "delim"       -> <<"---">>
      [] l.k = "name"        -> <<"name:">> \o l.v
      [] l.k = "description" -> <<"description:">> \o l.v
      [] l.k = "blank"       -> <<>>
      [] OTHER               -> l.v

\* content.match(/^---\s*\n([\s\S]*?)\n---/): the lines of the header block,
\* or <<>> with found = FALSE. The block is lazy: it ends before the first
\* later line that starts with ---, and it holds at least one line.
HeaderBlock(content) ==
    IF Len(content) >= 3 /\ content[1].k = "delim"
       /\ \E j \in 3..Len(content) : content[j].k = "delim"
    THEN LET j == CHOOSE j \in 3..Len(content) :
                    /\ content[j].k = "delim"
                    /\ \A i \in 3..(j - 1) : content[i].k # "delim"
         IN  [found |-> TRUE, block |-> SubSeq(content, 2, j - 1)]
    ELSE [found |-> FALSE, block |-> <<>>]

\* block.match(/^key:\s*(.+)$/m)?.[1]?.trim(): \s* also runs over line ends,
\* so a key line without a value captures the next non-blank line.
FieldOf(block, key) ==
    IF \E i \in 1..Len(block) : block[i].k = key
    THEN LET i == CHOOSE i \in 1..Len(block) :
                    block[i].k = key /\ \A h \in 1..(i - 1) : block[h].k # key
             later == {j \in (i + 1)..Len(block) : block[j].k # "blank"}
         IN  IF TrimStart(block[i].v) # <<>>
             THEN TrimEnd(TrimStart(block[i].v))
             ELSE IF later # {}
             THEN TrimEnd(TrimStart(LineText(block[CHOOSE j \in later : \A h \in later : j <= h])))
             ELSE <<>>
    ELSE <<>>

parseFrontmatter(content, fallbackName) ==
    LET m == HeaderBlock(content)
    IN  IF ~m.found THEN [name |-> <<fallbackName>>, description |-> <<>>]
        ELSE [name |-> IF FieldOf(m.block, "name") # <<>>
                       THEN FieldOf(m.block, "name") ELSE <<fallbackName>>,
              description |-> FieldOf(m.block, "description")]

\* process.env.X: undefined when the variable is not set
Unset == [set |-> FALSE, v |-> <<>>]
EnvVar(v) == [set |-> TRUE, v |-> v]

\* a string or undefined in a condition: undefined and "" are falsy
TruthyString(x) == x.set /\ x.v # <<>>

\* (GH_TOKEN looked at first)
GhTokenFirst(e) == IF TruthyString(e.GH_TOKEN) THEN e.GH_TOKEN ELSE e.GITHUB_TOKEN

\* line 12: process.env.GITHUB_TOKEN || process.env.GH_TOKEN
EnvToken(e) == IF TruthyString(e.GITHUB_TOKEN) THEN e.GITHUB_TOKEN ELSE e.GH_TOKEN

\* lines 20-24: execSync("gh auth token", {timeout: 5000, ...}) throws when
\* the binary is missing, on a timeout and on a non-zero exit status, and
\* returns what the command printed otherwise
ExecSync(gh) ==
    IF gh.kind = "ok" THEN [threw |-> FALSE, out |-> gh.out]
    ELSE [threw |-> TRUE, out |-> <<>>]

\* String.prototype.trim
Trim(str) == TrimEnd(TrimStart(str))

NoHeaders == [ua |-> <<>>, auth |-> <<>>]

\* `Bearer ${token}`
Bearer(token) == <<"Bearer ">> \o token

\* lines 8-33: the headers, and how many times the lookup was executed;
\* auth = <<>> stands for a headers object without Authorization
getAuthHeaders(e, gh) ==
    LET ua == <<"claude-skills-cli">>
    IN  IF TruthyString(EnvToken(e))
        THEN [headers |-> [ua |-> ua, auth |-> Bearer(EnvToken(e).v)], execs |-> 0]
        ELSE LET r == ExecSync(gh)
                 token == IF r.threw THEN <<>> ELSE Trim(r.out)
             IN  [headers |-> [ua |-> ua, auth |-> IF token # <<>> THEN Bearer(token) ELSE <<>>],
                  execs |-> 1]

\* fetch(url, { headers })
Request(target, h) == [to |-> target, headers |-> h]

\* (a check of the form res.status >= 400)
OkBelow400(status) == status < 400

\* res.ok
Ok(status) == 200 <= status /\ status <= 299

RateLimitOnly403(status) == status = 403

\* res.status === 403 || res.status === 429
IsRateLimit(status) == status = 403 \/ status = 429

\* the error thrown for a listing response that is not ok
ListingError(status) == IF IsRateLimit(status) THEN "RateLimited" ELSE "ListFailed"

\* entries.filter((e) => e.type === "dir")
DirsOf(entries) == SelectSeq(entries, LAMBDA e : e.type = "dir")

Pending == [kind |-> "pending", dirName |-> "", name |-> <<>>, description |-> <<>>, content |-> <<>>]
Null    == [kind |-> "null", dirName |-> "", name |-> <<>>, description |-> <<>>, content |-> <<>>]

\* { dirName: dir.name, name, description, content }
Descriptor(dirName, content) ==
    [kind |-> "skill", dirName |-> dirName,
     name |-> parseFrontmatter(content, dirName).name,
     description |-> parseFrontmatter(content, dirName).description,
     content |-> content]

\* (results collected in the order the fetches settle)
CollectInSettleOrder(res, i, r) ==
    [res EXCEPT ![CHOOSE j \in 1..Len(res) :
                    res[j].kind = "pending" /\ \A h \in 1..(j - 1) : res[h].kind # "pending"] = r]

\* Promise.all: the value of the i-th promise is the i-th element
Collect(res, i, r) == [res EXCEPT ![i] = r]

\* (the skipped directories are not filtered out)
FilterNothing(res) == res

\* results.filter(Boolean)
FilterBoolean(res) == SelectSeq(res, LAMBDA r : r.kind # "null")

\* lines 36-38: getAuthHeaders(), then the listing request is issued
fetchSkillsCall ==
    /\ fetchPc = "idle"
    /\ fetchPc' = "listing"
    /\ headers' = getAuthHeaders(env, ghCli).headers
    /\ ghExecs' = getAuthHeaders(env, ghCli).execs
    /\ requests' = <<Request("listing", headers')>>
    /\ UNCHANGED <<env, ghCli, listResp, tasks, results, settleOrder, warnings, fetchErr, fetched>>

\* lines 38-50: the listing response arrives (status 0: the request failed)
FetchListing ==
    /\ fetchPc = "listing"
    /\ IF listResp.status = 0
       THEN /\ fetchPc' = "threw"
            /\ fetchErr' = "NetworkError"
            /\ UNCHANGED <<tasks, results, requests>>
       ELSE IF ~Ok(listResp.status)
       THEN /\ fetchPc' = "threw"
            /\ fetchErr' = ListingError(listResp.status)
            /\ UNCHANGED <<tasks, results, requests>>
       ELSE LET dirs == DirsOf(listResp.entries)
            IN  /\ fetchPc' = "fanout"
                /\ tasks' = [i \in 1..Len(dirs) |-> "requested"]
                /\ results' = [i \in 1..Len(dirs) |-> Pending]
                /\ requests' = requests \o [i \in 1..Len(dirs) |-> Request(dirs[i].name, headers)]
                /\ UNCHANGED fetchErr
    /\ UNCHANGED <<env, ghCli, headers, ghExecs, listResp, settleOrder, warnings, fetched>>
    /\ UNCHANGED <<fsVars, mdVars, hookVars, installVars, mainVars>>
    /\ UNCHANGED scriptVars

\* what the fetch of one SKILL.md can come to
Bodies ==
    { <<Line("delim", <<>>), Line("name", <<" ", "react-query">>),
        Line("description", <<" ", "TanStack">>), Line("delim", <<>>), Line("text", <<"# Rules">>)>>,
      <<Line("text", <<"# Rules">>)>> }

TaskOutcomes ==
    {[kind |-> "ok", content |-> b] : b \in Bodies}
    \cup {[kind |-> k, content |-> <<>>] : k \in {"non2xx", "neterr", "bodyerr"}}

\* lines 51-69: the fetch of the i-th directory's SKILL.md settles
FetchTask(i, outcome) ==
    /\ fetchPc = "fanout"
    /\ i \in 1..Len(tasks)
    /\ tasks[i] = "requested"
    /\ LET dir == DirsOf(listResp.entries)[i]
       IN  CASE outcome.kind = "ok" ->
                  /\ results' = Collect(results, i, Descriptor(dir.name, outcome.content))
                  /\ UNCHANGED warnings
             [] outcome.kind = "non2xx" ->
                  /\ results' = Collect(results, i, Null)
                  /\ warnings' = Append(warnings, <<"No SKILL.md found", dir.name>>)
             [] OTHER ->
                  /\ results' = Collect(results, i, Null)
                  /\ warnings' = Append(warnings, <<"Failed to fetch", dir.name>>)
    /\ tasks' = [tasks EXCEPT ![i] = outcome.kind]
    /\ settleOrder' = Append(settleOrder, i)
    /\ UNCHANGED <<env, ghCli, headers, ghExecs, requests, listResp, fetchPc, fetchErr, fetched>>
    /\ UNCHANGED <<fsVars, mdVars, hookVars, installVars, mainVars>>
    /\ UNCHANGED scriptVars

\* lines 50, 72: Promise.all resolves once every promise is fulfilled
FetchReturn ==
    /\ fetchPc = "fanout"
    /\ \A i \in 1..Len(tasks) : tasks[i] # "requested"
    /\ fetched' = FilterBoolean(results)
    /\ fetchPc' = "returned"
    /\ UNCHANGED <<env, ghCli, headers, ghExecs, requests, listResp, tasks, results,
                   settleOrder, warnings, fetchErr>>
    /\ UNCHANGED <<fsVars, mdVars, hookVars, installVars, mainVars>>
    /\ UNCHANGED scriptVars

\* fetchSkills called directly
fetchSkills ==
    /\ mainPc = "lib"
    /\ fetchSkillsCall
    /\ UNCHANGED <<fsVars, mdVars, hookVars, installVars, mainVars>>
    /\ UNCHANGED scriptVars

(***************************************************************************)
(* Bundle Installer: installSkills.                                        *)
(* skillDir[n] is "absent", "dir", "file" (something that is no directory  *)
(* is in the way: mkdir throws) or "unwritable" (the directory exists and  *)
(* SKILL.md cannot be written: writeFile throws).                          *)
(***************************************************************************)
\* (writeFile with the append flag)
AppendToFile(old, content) == TextFile(old.data \o content)

\* writeFile(path, skill.content): the file's contents are replaced
WriteFile(old, content) == TextFile(content)

\* the call: nothing has run yet
installSkillsCall ==
    /\ installPc = "idle"
    /\ installPc' = "loop"
    /\ installIdx' = 1
    /\ installErr' = ""
    /\ installLog' = <<>>
    /\ UNCHANGED <<installRuns, afterFirst>>

\* lines 14-19: one iteration of the loop; a throw leaves installSkills
InstallStep ==
    /\ installPc = "loop"
    /\ installIdx <= Len(selected)
    /\ LET skill == selected[installIdx]
           d     == skill.dirName
       IN  IF skillDir[d] \in {"file", "unwritable"}
           THEN /\ installPc' = "threw"
                /\ installErr' = d
                /\ UNCHANGED <<skillDir, skillFile, fsWrites, installIdx, installLog>>
           ELSE /\ skillDir' = [skillDir EXCEPT ![d] = "dir"]
                /\ skillFile' = [skillFile EXCEPT ![d] = WriteFile(skillFile[d], skill.content)]
                /\ fsWrites' = fsWrites \cup {d}
                /\ installLog' = Append(installLog, d)
                /\ installIdx' = installIdx + 1
                /\ UNCHANGED <<installPc, installErr>>
    /\ UNCHANGED <<claudeMd, settingsFile, hookFile, skillInit>>
    /\ UNCHANGED <<selected, installRuns, afterFirst>>
    /\ UNCHANGED <<mdVars, hookVars, fetchVars, mainVars>>
    /\ UNCHANGED scriptVars

\* the loop is over: installSkills returns
InstallReturn ==
    /\ installPc = "loop"
    /\ installIdx > Len(selected)
    /\ installPc' = "idle"
    /\ installRuns' = installRuns + 1
    /\ afterFirst' = IF installRuns = 0 THEN skillFile ELSE afterFirst
    /\ UNCHANGED <<selected, installIdx, installErr, installLog>>
    /\ UNCHANGED <<fsVars, mdVars, hookVars, fetchVars, mainVars>>
    /\ UNCHANGED scriptVars

\* installSkills called directly, again with the same descriptors
installSkills ==
    /\ mainPc = "lib"
    /\ installRuns < MaxInstallRuns
    /\ installSkillsCall
    /\ UNCHANGED selected
    /\ UNCHANGED <<fsVars, mdVars, hookVars, fetchVars, mainVars>>
    /\ UNCHANGED scriptVars

(***************************************************************************)
(* The command line driver: main, and promptSkillSelection.                *)
(***************************************************************************)
CATEGORY_ORDER == {"Frontend", "TypeScript", "Backend", "Quality", "General"}

\* skill.category: fetchSkills builds descriptors without that property
CategoryOf(skill) == "undefined"

\* the choices the checkbox offers: lib/prompt.mjs groups the skills by the
\* categories of CATEGORY_ORDER, the flat variant offers every skill
Offered(impl, skills) ==
    IF impl = "categories"
    THEN SelectSeq(skills, LAMBDA sk : CategoryOf(sk) \in CATEGORY_ORDER)
    ELSE skills

\* the sub-sequences of a list: what a checkbox over it can return
RECURSIVE SubLists(_)
SubLists(seq) ==
    IF seq = <<>> THEN {<<>>}
    ELSE LET rest == SubLists(Tail(seq))
         IN  rest \cup {<<Head(seq)>> \o r : r \in rest}

\* (an empty selection is installed like any other)
NeverEmpty(sel) == FALSE

\* line 30: selected.length === 0
SelectionEmpty(sel) == Len(sel) = 0

\* process.exit(code)
Exit(code) == mainPc' = "exited" /\ exitCode' = code /\ UNCHANGED promptImpl
Goto(pc) == mainPc' = pc /\ UNCHANGED <<promptImpl, exitCode>>

\* line 21: const skills = await fetchSkills()
MainFetch ==
    /\ mainPc = "start"
    /\ fetchSkillsCall
    /\ Goto("fetch")
    /\ UNCHANGED <<fsVars, mdVars, hookVars, installVars>>
    /\ UNCHANGED scriptVars

\* lines 21-26, 53-60: fetchSkills threw, returned nothing, or returned skills
MainFetched ==
    /\ mainPc = "fetch"
    /\ fetchPc \in {"returned", "threw"}
    /\ IF fetchPc = "threw" THEN Exit(1)
       ELSE IF Len(fetched) = 0 THEN Exit(0)
       ELSE Goto("prompt")
    /\ UNCHANGED <<fsVars, mdVars, hookVars, fetchVars, installVars>>
    /\ UNCHANGED scriptVars

\* lines 28-36: the selection prompt is aborted (ExitPromptError), fails, or
\* returns a selection; a non-empty selection is handed to installSkills
MainPrompt(answer) ==
    /\ mainPc = "prompt"
    /\ answer.kind \in {"cancel", "error"}
         \/ (answer.kind = "selection" /\ answer.skills \in SubLists(Offered(promptImpl, fetched)))
    /\ CASE answer.kind = "cancel" -> Exit(0) /\ UNCHANGED installVars
         [] answer.kind = "error"  -> Exit(1) /\ UNCHANGED installVars
         [] OTHER ->
              IF SelectionEmpty(answer.skills)
              THEN Exit(0) /\ UNCHANGED installVars
              ELSE /\ selected' = answer.skills
                   /\ installSkillsCall
                   /\ Goto("install")
    /\ UNCHANGED <<fsVars, mdVars, hookVars, fetchVars>>
    /\ UNCHANGED scriptVars

\* lines 36-42, 53-60: installSkills threw or returned
MainInstalled ==
    /\ mainPc = "install"
    /\ installPc \in {"idle", "threw"}
    /\ IF installPc = "threw" THEN Exit(1) ELSE Goto("confirm")
    /\ UNCHANGED <<fsVars, mdVars, hookVars, fetchVars, installVars>>
    /\ UNCHANGED scriptVars

\* (a declined confirmation that still patches CLAUDE.md)
ConfirmRuleAnyway(answer) ==
    /\ mainPc = "confirm"
    /\ CASE answer = "cancel" -> Exit(0) /\ UNCHANGED <<fsVars, mdVars, hookVars>>
         [] answer = "no"     -> Goto("finish") /\ setupClaudeMdBody /\ UNCHANGED hookVars
         [] OTHER             -> Goto("setupHook") /\ setupHookCall /\ UNCHANGED <<fsVars, mdVars>>
    /\ UNCHANGED <<fetchVars, installVars>>
    /\ UNCHANGED scriptVars

\* lines 39-46: the confirmation is aborted, declined or accepted
MainConfirm(answer) ==
    /\ mainPc = "confirm"
    /\ CASE answer = "cancel" -> Exit(0) /\ UNCHANGED hookVars
         [] answer = "no"     -> Goto("finish") /\ UNCHANGED hookVars
         [] OTHER             -> Goto("setupHook") /\ setupHookCall
    /\ UNCHANGED <<fsVars, mdVars, fetchVars, installVars>>
    /\ UNCHANGED scriptVars

\* lines 46, 53-60: setupHook threw
MainHookThrew ==
    /\ mainPc = "setupHook"
    /\ hookPc = "idle" /\ hookOutcomes[Len(hookOutcomes)] # "ok"
    /\ Exit(1)
    /\ UNCHANGED <<fsVars, mdVars, hookVars, fetchVars, installVars>>
    /\ UNCHANGED scriptVars

\* line 47: setupHook returned; await setupClaudeMd()
MainSetupClaudeMd ==
    /\ mainPc = "setupHook"
    /\ hookPc = "idle" /\ hookOutcomes[Len(hookOutcomes)] = "ok"
    /\ setupClaudeMdBody
    /\ Goto("finish")
    /\ UNCHANGED <<hookVars, fetchVars, installVars>>
    /\ UNCHANGED scriptVars

\* line 50: the closing message; main returns
MainFinish ==
    /\ mainPc = "finish"
    /\ Exit(0)
    /\ UNCHANGED <<fsVars, mdVars, hookVars, fetchVars, installVars>>
    /\ UNCHANGED scriptVars

(***************************************************************************)
(* Idle values of each group of variables.                                 *)
(***************************************************************************)
Names == {"a", "b", "c", "d"}

FsEmpty ==
    /\ claudeMd = NoFile
    /\ settingsFile = NoSettings
    /\ hookFile = NoHookFile
    /\ skillDir = [n \in Names |-> "absent"]
    /\ skillFile = [n \in Names |-> NoFile]
    /\ skillInit = skillFile
    /\ fsWrites = {}

MdIdle == mdCalls = 0 /\ mdInit = claudeMd /\ mdLog = "none"

HookIdle ==
    /\ targetDir = "/proj"
    /\ hookPc = "idle"
    /\ hookCalls = 0
    /\ hookOutcomes = <<>>
    /\ settingsInit = settingsFile
    /\ settingsBefore = settingsFile
    /\ settingsWrites = 0
    /\ hookLog = <<>>

\* no token in the environment, no gh binary
AuthIdle ==
    /\ env = [GITHUB_TOKEN |-> Unset, GH_TOKEN |-> Unset]
    /\ ghCli = [kind |-> "missing", out |-> <<>>]
    /\ headers = NoHeaders
    /\ ghExecs = 0
    /\ requests = <<>>

FetchIdle ==
    /\ AuthIdle
    /\ listResp = [status |-> 0, entries |-> <<>>]
    /\ fetchPc = "idle"
    /\ tasks = <<>>
    /\ results = <<>>
    /\ settleOrder = <<>>
    /\ warnings = <<>>
    /\ fetchErr = "none"
    /\ fetched = <<>>

InstallIdle ==
    /\ selected = <<>>
    /\ installPc = "idle"
    /\ installIdx = 0
    /\ installErr = ""
    /\ installLog = <<>>
    /\ installRuns = 0
    /\ afterFirst = skillFile

MainLib == mainPc = "lib" /\ promptImpl = "none" /\ exitCode = -1

\* the script has not been invoked
ScriptIdle ==
    /\ projEnv = "unset"
    /\ strayFile = [k \in {"nested", "deep"} |-> NoFile]
    /\ unreadable = {}
    /\ treeChanges = 0
    /\ scriptPc = "idle"
    /\ found = <<>>
    /\ paths = <<>>
    /\ listed = <<>>
    /\ skillList = <<>>
    /\ stdout = <<>>
    /\ lastStatus = 0
    /\ exitStatus = -1

(***************************************************************************)
(* SpecMd: setupClaudeMd called repeatedly on an arbitrary CLAUDE.md.      *)
(***************************************************************************)
InitMd ==
    /\ claudeMd \in {NoFile} \cup {TextFile(s) : s \in SeqsUpTo(MdTokens, MaxMdLen)}
    /\ settingsFile = NoSettings
    /\ hookFile = NoHookFile
    /\ skillDir = [n \in Names |-> "absent"]
    /\ skillFile = [n \in Names |-> NoFile]
    /\ skillInit = skillFile
    /\ fsWrites = {}
    /\ MdIdle /\ HookIdle /\ FetchIdle /\ InstallIdle /\ MainLib /\ ScriptIdle

NextMd == setupClaudeMd

SpecMd == InitMd /\ [][NextMd]_vars

\* C3: if CLAUDE.md at first did not contain the marker "skill_evaluation:"
\* (an absent or empty file included), then after n >= 1 consecutive
\* setupClaudeMd calls the document contains exactly one occurrence of it.
C3_OneMarkerAfterCalls ==
    (mdCalls >= 1 /\ ~Includes(ReadOrEmpty(mdInit), MARKER))
        => (claudeMd.exists /\ Occurrences(claudeMd.data, MARKER) = 1)

\* a second call has run on a document that the first call patched
C3_Witness ==
    /\ mdCalls = 2
    /\ mdInit.exists /\ mdInit.data # <<>>
    /\ ~Includes(mdInit.data, MARKER)
    /\ Occurrences(claudeMd.data, MARKER) = 1

(***************************************************************************)
(* SpecHook: setupHook called repeatedly on an arbitrary settings.json.    *)
(***************************************************************************)
Roots == {"/proj", "/old"}

Entry(handlers) == JObj(<< <<"hooks", JArr(handlers)>> >>)

\* UserPromptSubmit entries a settings.json may hold
EntryPool ==
    { Entry(<<CommandHandler(<<"/proj/scripts/", "lint.sh">>)>>),
      HookEntry(HookPath("/proj")),
      HookEntry(HookPath("/old")),
      Entry(<<CommandHandler(<<"/proj/.claude/hooks/my-">> \o HOOK_FILENAME)>>),
      JObj(<< <<"matcher", JStr(<<"Bash">>)>>,
              <<"hooks", JArr(<<JObj(<< <<"type", JStr(<<"prompt">>)>> >>)>>)>> >>),
      JObj(<< <<"matcher", JStr(<<"Bash">>)>> >>),
      JNull,
      JObj(<< <<"hooks", JStr(<<"x">>)>> >>),
      Entry(<<JObj(<< <<"type", JStr(<<"command">>)>>, <<"command", JNum(1)>> >>)>>) }

PreToolUseMember == <<"PreToolUse", JArr(<<Entry(<<CommandHandler(<<"/proj/scripts/", "fmt.sh">>)>>)>>)>>
PermissionsMember == <<"permissions", JObj(<< <<"allow", JArr(<<JStr(<<"Bash">>)>>)>> >>)>>

\* values of the hooks member
HooksValues ==
    {JNull, JStr(<<"x">>), JArr(<<>>)}
    \cup { JObj(pre \o ups) :
             pre \in {<<>>, <<PreToolUseMember>>},
             ups \in {<<>>, << <<"UserPromptSubmit", JStr(<<"x">>)>> >>}
                     \cup { << <<"UserPromptSubmit", JArr(es)>> >> :
                              es \in SeqsUpTo(EntryPool, MaxUpsLen) } }

\* values a settings.json may denote
SettingsValues ==
    {JNull, JNum(1), JStr(<<"x">>), JArr(<<>>), JObj(<<>>), JObj(<<PermissionsMember>>)}
    \cup { JObj(<< <<"hooks", h>> >>) : h \in HooksValues }
    \cup { JObj(<<PermissionsMember, <<"hooks", h>> >>) : h \in HooksValues }
    \cup { JObj(<< <<"hooks", h>>, PermissionsMember>>) : h \in HooksValues }

SettingsTexts ==
    {NoSettings, BadText("truncated"), BadText("trailing comma")}
    \cup { JsonText(fmt, val) : fmt \in {"indent2", "compact"}, val \in SettingsValues }

InitHook ==
    /\ claudeMd = NoFile
    /\ settingsFile \in SettingsTexts
    /\ hookFile \in {NoHookFile, [exists |-> TRUE, content |-> "old script", mode |-> "644"]}
    /\ skillDir = [n \in Names |-> "absent"]
    /\ skillFile = [n \in Names |-> NoFile]
    /\ skillInit = skillFile
    /\ fsWrites = {}
    /\ targetDir \in Roots
    /\ hookPc = "idle"
    /\ hookCalls = 0
    /\ hookOutcomes = <<>>
    /\ settingsInit = settingsFile
    /\ settingsBefore = settingsFile
    /\ settingsWrites = 0
    /\ hookLog = <<>>
    /\ MdIdle /\ FetchIdle /\ InstallIdle /\ MainLib /\ ScriptIdle

NextHook == setupHook \/ HookWriteScript \/ HookChmod \/ HookPatchSettings

SpecHook == InitHook /\ [][NextHook]_vars

\* a setupHook call has finished (returned or thrown)
HookFinished == hookPc = "idle" /\ hookCalls >= 1
LastOutcome == hookOutcomes[Len(hookOutcomes)]

(***************************************************************************)
(* SpecFetch: one fetchSkills call against an arbitrary catalog.           *)
(***************************************************************************)
Statuses == {0, 200, 304, 401, 403, 404, 429, 500}

ListingEntries ==
    { [i \in 1..Len(ns) |-> [name |-> ns[i], type |-> ts[i]]] :
        <<ns, ts>> \in { <<n, t>> \in SeqsUpTo(Names, MaxListing) \X SeqsUpTo({"dir", "file"}, MaxListing) :
                           Len(n) = Len(t) /\ \A i, j \in 1..Len(n) : i # j => n[i] # n[j] } }

InitFetch ==
    /\ FsEmpty
    /\ AuthIdle
    /\ listResp \in [status : Statuses, entries : ListingEntries]
    /\ fetchPc = "idle"
    /\ tasks = <<>>
    /\ results = <<>>
    /\ settleOrder = <<>>
    /\ warnings = <<>>
    /\ fetchErr = "none"
    /\ fetched = <<>>
    /\ MdIdle /\ HookIdle /\ InstallIdle /\ MainLib /\ ScriptIdle

NextFetch ==
    \/ fetchSkills
    \/ FetchListing
    \/ \E i \in 1..MaxListing, o \in TaskOutcomes : FetchTask(i, o)
    \/ FetchReturn

SpecFetch == InitFetch /\ [][NextFetch]_vars

(***************************************************************************)
(* SpecInstall: installSkills called, twice at most, with a set of         *)
(* descriptors on an arbitrary project tree.                               *)
(***************************************************************************)
InstallNames == {"a", "b", "c"}

OldBody == <<Line("text", <<"old">>)>>

\* the descriptors of distinct directories, as fetchSkills builds them
DescriptorLists(names, maxLen) ==
    { [i \in 1..Len(ns) |-> Descriptor(ns[i], bs[i])] :
        <<ns, bs>> \in { <<n, b>> \in SeqsUpTo(names, maxLen) \X SeqsUpTo(Bodies, maxLen) :
                           Len(n) = Len(b) /\ \A i, j \in 1..Len(n) : i # j => n[i] # n[j] } }

\* the states of <root>/.claude/skills/<name> before the call
TreeStates ==
    { [dir |-> "absent", file |-> NoFile],
      [dir |-> "dir", file |-> TextFile(OldBody)],
      [dir |-> "file", file |-> NoFile],
      [dir |-> "unwritable", file |-> NoFile] }

InitInstall ==
    /\ claudeMd = NoFile
    /\ settingsFile = NoSettings
    /\ hookFile = NoHookFile
    /\ \E tree \in [InstallNames -> TreeStates] :
         /\ skillDir = [n \in Names |-> IF n \in InstallNames THEN tree[n].dir ELSE "absent"]
         /\ skillFile = [n \in Names |-> IF n \in InstallNames THEN tree[n].file ELSE NoFile]
    /\ skillInit = skillFile
    /\ fsWrites = {}
    /\ selected \in {l \in DescriptorLists(InstallNames, MaxSelected) : Len(l) >= 1}
    /\ installPc = "idle"
    /\ installIdx = 0
    /\ installErr = ""
    /\ installLog = <<>>
    /\ installRuns = 0
    /\ afterFirst = skillFile
    /\ MdIdle /\ HookIdle /\ FetchIdle /\ MainLib /\ ScriptIdle

NextInstall == installSkills \/ InstallStep \/ InstallReturn

SpecInstall == InitInstall /\ [][NextInstall]_vars

(***************************************************************************)
(* Spec: one run of the command line tool, main.                           *)
(***************************************************************************)
Catalog ==
    << [name |-> "a", type |-> "dir"], [name |-> "README.md", type |-> "file"],
       [name |-> "b", type |-> "dir"], [name |-> "c", type |-> "dir"],
       [name |-> "d", type |-> "dir"] >>

Min(a, b) == IF a < b THEN a ELSE b

Init ==
    /\ claudeMd \in {NoFile, TextFile(<<"x", "\n">>)}
    /\ settingsFile \in {NoSettings, BadText("truncated"),
                         JsonText("compact", JObj(<<PermissionsMember, <<"hooks", JStr(<<"x">>)>> >>))}
    /\ hookFile = NoHookFile
    /\ skillDir \in {[n \in Names |-> "absent"], [n \in Names |-> IF n = "b" THEN "unwritable" ELSE "absent"]}
    /\ skillFile = [n \in Names |-> NoFile]
    /\ skillInit = skillFile
    /\ fsWrites = {}
    /\ AuthIdle
    /\ listResp \in [status : Statuses,
                     entries : {SubSeq(Catalog, 1, n) : n \in 0..Min(MaxCatalog, Len(Catalog))}]
    /\ fetchPc = "idle"
    /\ tasks = <<>>
    /\ results = <<>>
    /\ settleOrder = <<>>
    /\ warnings = <<>>
    /\ fetchErr = "none"
    /\ fetched = <<>>
    /\ mainPc = "start"
    /\ promptImpl \in {"categories", "flat"}
    /\ exitCode = -1
    /\ MdIdle /\ HookIdle /\ InstallIdle /\ ScriptIdle

Next ==
    \/ MainFetch
    \/ FetchListing
    \/ \E i \in 1..MaxCatalog, o \in TaskOutcomes : FetchTask(i, o)
    \/ FetchReturn
    \/ MainFetched
    \/ \E answer \in [kind : {"cancel", "error"}, skills : {<<>>}]
                     \cup [kind : {"selection"}, skills : SubLists(fetched)] : MainPrompt(answer)
    \/ InstallStep
    \/ InstallReturn
    \/ MainInstalled
    \/ \E answer \in {"yes", "no", "cancel"} : MainConfirm(answer)
    \/ HookWriteScript
    \/ HookChmod
    \/ HookPatchSettings
    \/ MainHookThrew
    \/ MainSetupClaudeMd
    \/ MainFinish

Spec == Init /\ [][Next]_vars

(***************************************************************************)
(* Claims about fetchSkills.                                               *)
(***************************************************************************)
ListedDirs == DirsOf(listResp.entries)
FailedTasks == {i \in 1..Len(tasks) : tasks[i] \in {"non2xx", "neterr", "bodyerr"}}
OkTasks == {i \in 1..Len(tasks) : tasks[i] = "ok"}
PositionIn(dirs, n) == CHOOSE i \in 1..Len(dirs) : dirs[i].name = n

\* C4: with N directories listed of which M have a failing SKILL.md fetch
\* (non-2xx, network error or body read failure), fetchSkills does not throw,
\* returns exactly N-M descriptors, namely those of the directories whose
\* fetch succeeded, and emits exactly M warnings, one per failed directory.
C4_PartialFailureIsolated ==
    /\ (Ok(listResp.status) => fetchPc # "threw")
    /\ fetchPc = "returned"
         => /\ Len(tasks) = Len(ListedDirs)
            /\ Len(fetched) = Len(ListedDirs) - Cardinality(FailedTasks)
            /\ Len(warnings) = Cardinality(FailedTasks)
            /\ {fetched[k].dirName : k \in 1..Len(fetched)} = {ListedDirs[i].name : i \in OkTasks}
            /\ \A k \in 1..Len(fetched) : fetched[k].kind = "skill"
            /\ {warnings[k][2] : k \in 1..Len(warnings)} = {ListedDirs[i].name : i \in FailedTasks}

\* three directories, failures of two different kinds, one descriptor returned
C4_Witness ==
    /\ fetchPc = "returned"
    /\ Len(ListedDirs) = 3
    /\ \E i, j \in FailedTasks : tasks[i] = "non2xx" /\ tasks[j] = "neterr"
    /\ Len(fetched) = 1

\* C5: whatever the order in which the per-directory fetches complete, the
\* returned descriptors are in the relative order of their directories in the
\* listing, and fetchSkills returns only after every fetch has settled.
C5_ListingOrderKept ==
    fetchPc = "returned"
        => /\ \A i \in 1..Len(tasks) : tasks[i] # "requested"
           /\ Len(settleOrder) = Len(ListedDirs)
           /\ \A k \in 1..Len(fetched) : \E i \in 1..Len(ListedDirs) : ListedDirs[i].name = fetched[k].dirName
           /\ \A k, l \in 1..Len(fetched) :
                k < l => PositionIn(ListedDirs, fetched[k].dirName) < PositionIn(ListedDirs, fetched[l].dirName)

\* the fetches settled in the reverse of the listing order
C5_Witness ==
    /\ fetchPc = "returned"
    /\ Len(fetched) = 3
    /\ settleOrder = <<3, 2, 1>>

InstallReturned == installPc = "idle" /\ installRuns >= 1

\* C8: after installSkills, each <root>/.claude/skills/<dirName>/SKILL.md
\* holds exactly its descriptor's body, whatever the tree held before, and a
\* second run with the same descriptors leaves every file as the first did.
C8_InstallReplacesAndRepeats ==
    /\ InstallReturned
         => \A k \in 1..Len(selected) :
              skillFile[selected[k].dirName] = TextFile(selected[k].content)
    /\ (InstallReturned /\ installRuns >= 2) => skillFile = afterFirst

\* two bundles installed twice, one of them over an older SKILL.md
C8_Witness ==
    /\ InstallReturned /\ installRuns = 2
    /\ Len(selected) = 2
    /\ \E k \in 1..2 : skillInit[selected[k].dirName] = TextFile(OldBody)
    /\ \E k \in 1..2 : skillInit[selected[k].dirName] = NoFile

\* C9 (as claimed): when writing one bundle fails, the failure is reported
\* for its directory name and every other selected bundle that can be
\* written, those after it included, is still installed.
C9_SiblingsStillInstalled ==
    installPc = "threw"
        => /\ installErr \in {selected[k].dirName : k \in 1..Len(selected)}
           /\ \A k \in 1..Len(selected) :
                skillDir[selected[k].dirName] \notin {"file", "unwritable"}
                  => skillFile[selected[k].dirName] = TextFile(selected[k].content)

(***************************************************************************)
(* Claims about a run of main.                                             *)
(***************************************************************************)
\* C7: in a run in which listing the catalog fails (a non-2xx answer or no
\* answer), no file of the project is created or modified at any point: no
\* SKILL.md, no hook script, no settings.json, no CLAUDE.md.
C7_NoWriteWhenListingFails ==
    (listResp.status \notin 200..299)
        => /\ fsWrites = {}
           /\ skillFile = skillInit
           /\ \A n \in Names : skillDir[n] # "dir"
           /\ hookFile = NoHookFile
           /\ settingsFile = settingsInit
           /\ claudeMd = mdInit
           /\ mainPc \in {"start", "fetch", "exited"}

\* a rate limited run has ended, with directories in the answer's body
C7_Witness ==
    /\ mainPc = "exited" /\ exitCode = 1
    /\ fetchErr = "RateLimited"
    /\ Len(ListedDirs) >= 2

(***************************************************************************)
(* What a settings document holds (used to state the claims).              *)
(***************************************************************************)
IsJsonObject(file) == file.exists /\ file.valid /\ file.val.t = "obj"

\* the entries of hooks.UserPromptSubmit, <<>> when there is no such array
UpsEntries(val) ==
    LET hooks == Prop(val, "hooks")
        ups   == Prop(hooks, "UserPromptSubmit")
    IN  IF val.t = "obj" /\ hooks.t = "obj" /\ ups.t = "arr" THEN ups.v ELSE <<>>

HandlersOf(entry) ==
    IF entry.t = "obj" /\ Prop(entry, "hooks").t = "arr" THEN Prop(entry, "hooks").v ELSE <<>>

\* the (entry, handler) positions of the registrations whose command satisfies Test
RegistrationsWhere(val, Test(_)) ==
    { <<i, j>> \in (1..Len(UpsEntries(val))) \X (1..4) :
        /\ j <= Len(HandlersOf(UpsEntries(val)[i]))
        /\ LET h == HandlersOf(UpsEntries(val)[i])[j]
           IN  /\ h.t = "obj"
               /\ Prop(h, "command").t = "str"
               /\ Test(Prop(h, "command").v) }

\* registrations of the hook script at hookPath
RegistrationsOf(val, hookPath) == RegistrationsWhere(val, LAMBDA c : c = hookPath)

\* registrations whose command ends with the hook filename
FilenameRegistrations(val) == RegistrationsWhere(val, LAMBDA c : EndsWith(c, HOOK_FILENAME))

\* the members of an object other than the one named k, in order
OtherMembers(x, k) == SelectSeq(x.p, LAMBDA m : m[1] # k)

IsPrefix(s, t) == Len(s) <= Len(t) /\ SubSeq(t, 1, Len(s)) = s

\* C1 (as claimed): for every settings document that parses as a JSON object,
\* after two setupHook runs with the same root there is exactly one
\* UserPromptSubmit registration of the hook script, and every top-level key,
\* every other hooks event key and every pre-existing UserPromptSubmit entry
\* is still there with the same value and in the same order.  Only runs
\* that both returned normally are looked at.
C1_TwiceOneRegistration ==
    (/\ HookFinished /\ hookCalls = 2 /\ IsJsonObject(settingsInit)
     /\ \A i \in 1..Len(hookOutcomes) : hookOutcomes[i] = "ok")
        => /\ IsJsonObject(settingsFile)
           /\ Cardinality(RegistrationsOf(settingsFile.val, HookPath(targetDir))) = 1
           /\ OtherMembers(settingsFile.val, "hooks") = OtherMembers(settingsInit.val, "hooks")
           /\ OtherMembers(Prop(settingsFile.val, "hooks"), "UserPromptSubmit")
                = OtherMembers(Prop(settingsInit.val, "hooks"), "UserPromptSubmit")
           /\ IsPrefix(UpsEntries(settingsInit.val), UpsEntries(settingsFile.val))

\* C2 (as claimed): if settings.json exists and is not valid JSON, setupHook
\* ends in a SettingsCorrupt error and the file's bytes are unchanged.
C2_CorruptSettingsUntouched ==
    (HookFinished /\ settingsBefore.exists /\ ~settingsBefore.valid)
        => (LastOutcome = "SettingsCorrupt" /\ settingsFile = settingsBefore)

\* C10 (as claimed): a setupHook call writes settings.json exactly once when
\* the registration was not yet present, and not at all when a
\* UserPromptSubmit entry whose command ends with the hook filename exists.
C10_OneWriteOrNone ==
    (HookFinished /\ LastOutcome = "ok")
        => settingsWrites = (IF FilenameRegistrations(settingsBefore.val) # {} THEN 0 ELSE 1)

\* C10 (amended): a setupHook call that returns without error writes
\* settings.json exactly once, whether or not the registration was present,
\* and a call that throws writes nothing; when a UserPromptSubmit entry whose
\* command ends with the hook filename already exists, the text written
\* denotes the value that was read (no entry is added), serialized with
\* 2-space indentation.
C10_OneWritePerReturn ==
    HookFinished
        => /\ settingsWrites = (IF LastOutcome = "ok" THEN 1 ELSE 0)
           /\ (LastOutcome = "ok" /\ FilenameRegistrations(settingsBefore.val) # {})
                => settingsFile = JsonText("indent2", settingsBefore.val)

\* a call on an already registered, compactly formatted document has
\* rewritten the file
C10_Witness ==
    /\ HookFinished /\ LastOutcome = "ok"
    /\ FilenameRegistrations(settingsBefore.val) # {}
    /\ settingsBefore.fmt = "compact"
    /\ settingsWrites = 1
    /\ settingsFile # settingsBefore

\* C11: when settings.json has a UserPromptSubmit array of k >= 1 entries
\* none of whose commands ends with the hook filename, a setupHook call that
\* returns leaves k + 1 entries: the k original ones, unchanged and in their
\* order, then one new entry holding only the registration of the hook
\* path; every sibling top-level key and every other hooks event key is
\* unchanged and keeps its place.
C11_AppendsNewEntry ==
    (/\ HookFinished /\ hookCalls = 1 /\ LastOutcome = "ok"
     /\ IsJsonObject(settingsInit)
     /\ Len(UpsEntries(settingsInit.val)) >= 1
     /\ FilenameRegistrations(settingsInit.val) = {})
        => /\ IsJsonObject(settingsFile)
           /\ UpsEntries(settingsFile.val)
                = Append(UpsEntries(settingsInit.val), HookEntry(HookPath(targetDir)))
           /\ HookEntry(HookPath(targetDir))
                = JObj(<< <<"hooks", JArr(<<JObj(<< <<"type", JStr(<<"command">>)>>,
                                                    <<"command", JStr(HookPath(targetDir))>> >>)>>)>> >>)
           /\ OtherMembers(settingsFile.val, "hooks") = OtherMembers(settingsInit.val, "hooks")
           /\ [i \in 1..Len(settingsFile.val.p) |-> settingsFile.val.p[i][1]]
                = [i \in 1..Len(settingsInit.val.p) |-> settingsInit.val.p[i][1]]
           /\ OtherMembers(Prop(settingsFile.val, "hooks"), "UserPromptSubmit")
                = OtherMembers(Prop(settingsInit.val, "hooks"), "UserPromptSubmit")

\* the spec's scenario: a permissions key and one hook of another script,
\* two entries after the call
C11_Witness ==
    /\ HookFinished /\ hookCalls = 1 /\ LastOutcome = "ok"
    /\ HasProp(settingsInit.val, "permissions")
    /\ UpsEntries(settingsInit.val) = <<Entry(<<CommandHandler(<<"/proj/scripts/", "lint.sh">>)>>)>>
    /\ Len(UpsEntries(settingsFile.val)) = 2
    /\ HasProp(settingsFile.val, "permissions")

\* C12 (as claimed): for every root R and every prior settings document
\* that parses as a JSON object (here: one whose hooks member, if there is
\* one, is an object), after setupHook(R) returns the UserPromptSubmit array
\* holds exactly one registration whose command is R's hook script path.
C12_ExactPathRegistered ==
    (/\ HookFinished /\ hookCalls = 1 /\ LastOutcome = "ok"
     /\ IsJsonObject(settingsInit)
     /\ HasProp(settingsInit.val, "hooks") => Prop(settingsInit.val, "hooks").t = "obj")
        => Cardinality(RegistrationsOf(settingsFile.val, HookPath(targetDir))) = 1

(***************************************************************************)
(* Claims about the stages of a run of main.                               *)
(***************************************************************************)
\* the project tree is as it was when the run started
TreeUntouched ==
    /\ fsWrites = {}
    /\ skillFile = skillInit
    /\ \A n \in Names : skillDir[n] # "dir"
    /\ hookFile = NoHookFile
    /\ settingsFile = settingsInit
    /\ claudeMd = mdInit

NoStageRan ==
    /\ installPc = "idle" /\ installRuns = 0 /\ installLog = <<>>
    /\ hookPc = "idle" /\ hookCalls = 0
    /\ mdCalls = 0

\* C13: from a project without .claude directory and without CLAUDE.md, a
\* run that installs two bundles and then sets up the hook and the rule ends
\* with both SKILL.md files holding their bodies, a settings.json whose
\* hooks.UserPromptSubmit array has exactly one entry, the registration of
\* the hook, and a CLAUDE.md that is the rule block alone: no leading
\* separator, one trailing newline.
C13_EmptyProjectScenario ==
    (/\ mainPc = "exited" /\ exitCode = 0
     /\ Len(selected) = 2 /\ mdCalls = 1
     /\ skillInit = [n \in Names |-> NoFile]
     /\ settingsInit = NoSettings /\ mdInit = NoFile)
        => /\ \A k \in 1..Len(selected) :
                /\ skillDir[selected[k].dirName] = "dir"
                /\ skillFile[selected[k].dirName] = TextFile(selected[k].content)
           /\ IsJsonObject(settingsFile)
           /\ UpsEntries(settingsFile.val) = <<HookEntry(HookPath(targetDir))>>
           /\ settingsFile.val.p
                = << <<"hooks", JObj(<< <<"UserPromptSubmit",
                                          JArr(<<HookEntry(HookPath(targetDir))>>)>> >>)>> >>
           /\ hookFile = [exists |-> TRUE, content |-> HOOK_SCRIPT, mode |-> "755"]
           /\ claudeMd = TextFile(<<"skill_evaluation", ":", "\n", " ", "rule", "\n">>)

C13_Witness ==
    /\ mainPc = "exited" /\ exitCode = 0
    /\ Len(selected) = 2 /\ mdCalls = 1 /\ hookCalls = 1
    /\ settingsInit = NoSettings /\ mdInit = NoFile
    /\ \A n \in Names : skillDir[n] = "dir" <=> \E k \in 1..2 : selected[k].dirName = n
    /\ claudeMd.exists /\ settingsFile.exists

\* C14: no file of the project is written before the selection prompt has
\* returned a selection that is not empty; in a run that ends without one
\* (the prompt is aborted or fails, or nothing is selected) installSkills,
\* setupHook and setupClaudeMd are never executed and the project tree is
\* unchanged.
C14_NothingBeforeSelection ==
    /\ mainPc \in {"start", "fetch", "prompt"} => (TreeUntouched /\ NoStageRan /\ selected = <<>>)
    /\ (mainPc = "exited" /\ selected = <<>>) => (TreeUntouched /\ NoStageRan)
    /\ ~TreeUntouched => selected # <<>>

\* the prompt was shown, no selection came out of it, the run has ended
C14_Witness ==
    /\ mainPc = "exited" /\ exitCode = 0
    /\ fetchPc = "returned" /\ Len(fetched) >= 2
    /\ selected = <<>>
    /\ TreeUntouched

\* C20 (as claimed, for the settings patch): what a setupHook call that
\* returned has printed tells whether the registration was applied by this
\* call or was already present: "Settings updated" is printed when the call
\* added the registration and not when a UserPromptSubmit entry whose
\* command ends with the hook filename was already there.
C20_PatchReportTellsWhich ==
    (HookFinished /\ LastOutcome = "ok")
        => LET already == FilenameRegistrations(settingsBefore.val) # {}
               said    == \E i \in 1..Len(hookLog) : hookLog[i] = "Settings updated"
           IN  said <=> ~already

(***************************************************************************)
(* SpecAuth: one fetchSkills call under every combination of tokens in the *)
(* environment and outcomes of the gh lookup.                              *)
(***************************************************************************)
EnvValues == {Unset, EnvVar(<<>>), EnvVar(<<"ghp_env">>), EnvVar(<<"ghp_other">>)}

GhOutcomes ==
    {[kind |-> k, out |-> <<>>] : k \in {"missing", "timeout", "nonzero"}}
    \cup {[kind |-> "ok", out |-> o] : o \in {<<>>, <<"\n">>, <<"gho_cli", "\n">>}}

InitAuth ==
    /\ FsEmpty
    /\ env \in [GITHUB_TOKEN : EnvValues, GH_TOKEN : EnvValues]
    /\ ghCli \in GhOutcomes
    /\ headers = NoHeaders
    /\ ghExecs = 0
    /\ requests = <<>>
    /\ listResp \in [status : {200, 403},
                     entries : {SubSeq(Catalog, 1, n) : n \in 0..Min(MaxAuthListing, Len(Catalog))}]
    /\ fetchPc = "idle"
    /\ tasks = <<>>
    /\ results = <<>>
    /\ settleOrder = <<>>
    /\ warnings = <<>>
    /\ fetchErr = "none"
    /\ fetched = <<>>
    /\ MdIdle /\ HookIdle /\ InstallIdle /\ MainLib /\ ScriptIdle

NextAuth ==
    \/ fetchSkills
    \/ FetchListing
    \/ \E i \in 1..MaxAuthListing, o \in TaskOutcomes : FetchTask(i, o)
    \/ FetchReturn

SpecAuth == InitAuth /\ [][NextAuth]_vars

\* the credential the priority rule names, <<>> for none
IsToken(x) == x.set /\ x.v # <<>>
ExpectedCredential ==
    IF IsToken(env.GITHUB_TOKEN) THEN env.GITHUB_TOKEN.v
    ELSE IF IsToken(env.GH_TOKEN) THEN env.GH_TOKEN.v
    ELSE IF ghCli.kind = "ok" /\ Trim(ghCli.out) # <<>> THEN Trim(ghCli.out)
    ELSE <<>>

\* C15: the credential of a fetchSkills call is GITHUB_TOKEN if set and not
\* empty, else GH_TOKEN if set and not empty, else the token the gh lookup
\* printed (without the surrounding white space) if it succeeded and printed
\* one, else none; the lookup is executed once when no environment token
\* exists and not at all otherwise; no outcome of the lookup makes the call
\* throw; the listing request and every per-directory request are sent, with
\* User-Agent, with Authorization exactly when there is a credential, and
\* all with the same headers.
C15_CredentialPriority ==
    fetchPc # "idle"
        => /\ headers.ua = <<"claude-skills-cli">>
           /\ headers.auth = (IF ExpectedCredential = <<>> THEN <<>>
                              ELSE <<"Bearer ">> \o ExpectedCredential)
           /\ ghExecs = (IF IsToken(env.GITHUB_TOKEN) \/ IsToken(env.GH_TOKEN) THEN 0 ELSE 1)
           /\ fetchErr \in {"none", "NetworkError", "RateLimited", "ListFailed"}
           /\ Len(requests) >= 1 /\ requests[1].to = "listing"
           /\ fetchPc \in {"fanout", "returned"}
                => [i \in 1..(Len(requests) - 1) |-> requests[i + 1].to]
                     = [i \in 1..Len(ListedDirs) |-> ListedDirs[i].name]
           /\ \A i \in 1..Len(requests) : requests[i].headers = headers

\* an empty GITHUB_TOKEN, no GH_TOKEN, the gh lookup's token used on the
\* listing and on two per-directory requests
C15_Witness ==
    /\ fetchPc = "returned"
    /\ env.GITHUB_TOKEN = EnvVar(<<>>) /\ env.GH_TOKEN = Unset
    /\ ghCli.kind = "ok"
    /\ headers.auth = <<"Bearer ", "gho_cli">>
    /\ Len(requests) = 3

(***************************************************************************)
(* The generated hook script (HOOK_SCRIPT, a bash script).                 *)
(* A path is the sequence of its segments below $DIR.  The text the script *)
(* handles is a sequence of tokens: "\\" is one backslash, "\"" one double *)
(* quote, "\n" one line feed, any other token a run of plain characters.   *)
(***************************************************************************)
ScriptNames == {"a", "b"}

\* <root>/.claude/skills/<n>/SKILL.md, where installSkills writes a bundle
BundlePath(n) == <<".claude", "skills", n, "SKILL.md">>

\* SKILL.md files that are no installed bundle of the project: one of a
\* nested project, one deeper below .claude/skills
StrayPath(k) ==
    IF k = "nested" THEN <<"sub", ".claude", "skills", "a", "SKILL.md">>
    ELSE <<".claude", "skills", "a", "ref", "SKILL.md">>

StrayKeys == {"nested", "deep"}

\* line 9: DIR="${CLAUDE_PROJECT_DIR:-.}"; the script runs in the project root
Dir(e) == IF e \in {"unset", ""} THEN "." ELSE e

\* the files below $DIR, by path: those of the project when $DIR is the
\* project root, none when $DIR does not exist
FilesBelow(dir, bundles, strays) ==
    IF dir \in {".", "/proj"}
    THEN {[path |-> BundlePath(n), file |-> bundles[n], readable |-> n \notin unreadable] :
             n \in {m \in Names : bundles[m].exists}}
         \cup {[path |-> StrayPath(k), file |-> strays[k], readable |-> TRUE] :
                 k \in {j \in StrayKeys : strays[j].exists}}
    ELSE {}

\* find -path '*/.claude/skills/*/SKILL.md': a * also matches slashes
MatchesPattern(path) ==
    /\ path[Len(path)] = "SKILL.md"
    /\ \E i \in 1..Len(path) :
         i + 3 <= Len(path) /\ path[i] = ".claude" /\ path[i + 1] = "skills"

\* (the bundles as they were when setupHook wrote the script)
TreeAtGeneration(current, atGeneration) == atGeneration

\* line 19: find runs when the script runs, on the tree as it is then
TreeScanned(current, atGeneration) == current

\* the order of bytes among the segments that occur
SegRank(seg) ==
    CASE seg = ".claude"  -> 1
      [] seg = "SKILL.md" -> 2
      [] seg = "a"        -> 3
      [] seg = "b"        -> 4
      [] seg = "c"        -> 5
      [] seg = "d"        -> 6
      [] seg = "ref"      -> 7
      [] seg = "skills"   -> 8
      [] seg = "sub"      -> 9

\* p sorts before q (no segment is a prefix of another one)
RECURSIVE PathLess(_, _)
PathLess(p, q) ==
    IF p = <<>> THEN q # <<>>
    ELSE IF q = <<>> THEN FALSE
    ELSE IF Head(p) # Head(q) THEN SegRank(Head(p)) < SegRank(Head(q))
    ELSE PathLess(Tail(p), Tail(q))

\* the orders in which find may print a set of paths
Orders(S) ==
    {o \in [1..Cardinality(S) -> S] : \A i, j \in 1..Cardinality(S) : i # j => o[i] # o[j]}

\* (the lines read as find printed them)
Unsorted(lines) == lines

\* sort -u: the distinct lines, in increasing order
RECURSIVE SortU(_)
SortU(lines) ==
    LET S == {lines[i] : i \in 1..Len(lines)}
    IN  IF S = {} THEN <<>>
        ELSE LET least == CHOOSE p \in S : \A q \in S : q = p \/ PathLess(p, q)
             IN  <<least>> \o SortU(SelectSeq(lines, LAMBDA l : l # least))

\* sed 's/^"//' | sed 's/"$//'
StripQuotes(str) ==
    LET a == IF str # <<>> /\ Head(str) = "\"" THEN Tail(str) ELSE str
    IN  IF a # <<>> /\ a[Len(a)] = "\"" THEN SubSeq(a, 1, Len(a) - 1) ELSE a

\* sed 's/^key: *//': the spaces after the colon (and no other white space)
RECURSIVE StripSpaces(_)
StripSpaces(str) ==
    IF str # <<>> /\ Head(str) = " " THEN StripSpaces(Tail(str)) ELSE str

\* lines 14-15: $(grep -m1 '^key:' "$skillfile" 2>/dev/null | sed ... | sed ... | sed ...)
\* the first line of the file that starts with key:, "" when there is none
\* or when the file cannot be read
GrepField(f, key) ==
    IF ~f.readable \/ ~(\E i \in 1..Len(f.file.data) : f.file.data[i].k = key) THEN <<>>
    ELSE LET i == CHOOSE i \in 1..Len(f.file.data) :
                    f.file.data[i].k = key /\ \A h \in 1..(i - 1) : f.file.data[h].k # key
         IN  StripQuotes(StripSpaces(f.file.data[i].v))

\* line 16: [ -n "$name" ] && [ -n "$desc" ]
HasBoth(f) == GrepField(f, "name") # <<>> /\ GrepField(f, "description") # <<>>

\* the two characters \n in the text of the script's variables
Esc == <<"\\", "n">>

\* line 17: "  - ${name}: ${desc}\\n"
ListEntry(nl, name, desc) == <<"  - ">> \o name \o <<": ">> \o desc \o nl

\* lines 21-37: $INSTRUCTION, nl being what separates its lines (the
\* sentences of the three steps are shortened)
Instruction(nl, list) ==
    <<"INSTRUCTION: MANDATORY SKILL ACTIVATION SEQUENCE">> \o nl \o nl
    \o <<"<available_skills>">> \o nl
    \o <<"System skills (from system-reminder):">> \o nl
    \o <<"  - Check system-reminder for built-in skills">> \o nl
    \o (IF list # <<>> THEN <<"Project skills:">> \o nl \o list ELSE <<>>)
    \o <<"</available_skills>">> \o nl \o nl
    \o <<"Step 1 - EVALUATE">> \o nl \o nl
    \o <<"Step 2 - ACTIVATE: State 'No skills needed' and proceed">> \o nl \o nl
    \o <<"Step 3 - IMPLEMENT">> \o nl \o nl
    \o <<"CRITICAL: You MUST call Skill() tool in Step 2.">>

\* line 39: printf '{"additionalContext": "%s"}\n' "$INSTRUCTION": the
\* argument is copied as it is, a % or a backslash in it included
Printf(instruction) ==
    <<"{\"additionalContext\": \"">> \o instruction \o <<"\"}", "\n">>

\* (a script that ends with its last command)
ExitWithLast(status) == status

\* line 40: exit 0
ExitStatus(status) == 0

\* the script's variables at its start
ScriptReset ==
    /\ found' = <<>>
    /\ paths' = <<>>
    /\ listed' = <<>>
    /\ skillList' = <<>>
    /\ stdout' = <<>>
    /\ lastStatus' = 0
    /\ exitStatus' = -1

\* the host runs the registered command
HookInvoke ==
    /\ mainPc = "lib"
    /\ hookPc = "idle" /\ hookCalls >= 1 /\ hookOutcomes[Len(hookOutcomes)] = "ok"
    /\ hookFile.exists /\ hookFile.content = HOOK_SCRIPT /\ hookFile.mode = "755"
    /\ scriptPc \in {"idle", "done"}
    /\ scriptPc' = "cat"
    /\ ScriptReset
    /\ UNCHANGED <<projEnv, strayFile, unreadable, treeChanges>>
    /\ UNCHANGED <<fsVars, mdVars, hookVars, fetchVars, installVars, mainVars>>

\* lines 7-12: cat > /dev/null reads the standard input to its end
ScriptCat ==
    /\ scriptPc = "cat"
    /\ scriptPc' = "find"
    /\ UNCHANGED <<projEnv, strayFile, unreadable, treeChanges, found, paths, listed, skillList,
                   stdout, lastStatus, exitStatus>>
    /\ UNCHANGED <<fsVars, mdVars, hookVars, fetchVars, installVars, mainVars>>

\* line 19: find "$DIR" -path '*/.claude/skills/*/SKILL.md' 2>/dev/null
\* prints the matching paths in the order of the directory scan
ScriptFind ==
    /\ scriptPc = "find"
    /\ LET below == FilesBelow(Dir(projEnv), TreeScanned(skillFile, skillInit), strayFile)
           hits  == {f.path : f \in {g \in below : MatchesPattern(g.path)}}
       IN  \E order \in Orders(hits) : found' = order
    /\ scriptPc' = "sort"
    /\ UNCHANGED <<projEnv, strayFile, unreadable, treeChanges, paths, listed, skillList,
                   stdout, lastStatus, exitStatus>>
    /\ UNCHANGED <<fsVars, mdVars, hookVars, fetchVars, installVars, mainVars>>

\* line 19: | sort -u
ScriptSort ==
    /\ scriptPc = "sort"
    /\ paths' = SortU(found)
    /\ scriptPc' = "loop"
    /\ UNCHANGED <<projEnv, strayFile, unreadable, treeChanges, found, listed, skillList,
                   stdout, lastStatus, exitStatus>>
    /\ UNCHANGED <<fsVars, mdVars, hookVars, fetchVars, installVars, mainVars>>

\* lines 13-18: one turn of the loop, on the next line read
ScriptLoop ==
    /\ scriptPc = "loop"
    /\ paths # <<>>
    /\ LET below == FilesBelow(Dir(projEnv), TreeScanned(skillFile, skillInit), strayFile)
           f     == CHOOSE g \in below : g.path = Head(paths)
       IN  IF HasBoth(f)
           THEN /\ skillList' = skillList \o ListEntry(Esc, GrepField(f, "name"),
                                                        GrepField(f, "description"))
                /\ listed' = Append(listed, f.path)
           ELSE UNCHANGED <<skillList, listed>>
    /\ paths' = Tail(paths)
    /\ UNCHANGED <<projEnv, strayFile, unreadable, treeChanges, scriptPc, found,
                   stdout, lastStatus, exitStatus>>
    /\ UNCHANGED <<fsVars, mdVars, hookVars, fetchVars, installVars, mainVars>>

\* lines 21-39: the loop is over; the payload is built and printed (written
\* = FALSE: the write to the standard output fails, printf returns 1)
ScriptPrint(written) ==
    /\ scriptPc = "loop"
    /\ paths = <<>>
    /\ IF written
       THEN stdout' = Printf(Instruction(Esc, skillList)) /\ lastStatus' = 0
       ELSE stdout' = <<>> /\ lastStatus' = 1
    /\ scriptPc' = "exit"
    /\ UNCHANGED <<projEnv, strayFile, unreadable, treeChanges, found, paths, listed, skillList,
                   exitStatus>>
    /\ UNCHANGED <<fsVars, mdVars, hookVars, fetchVars, installVars, mainVars>>

\* line 40
ScriptExit ==
    /\ scriptPc = "exit"
    /\ exitStatus' = ExitStatus(lastStatus)
    /\ scriptPc' = "done"
    /\ UNCHANGED <<projEnv, strayFile, unreadable, treeChanges, found, paths, listed, skillList,
                   stdout, lastStatus>>
    /\ UNCHANGED <<fsVars, mdVars, hookVars, fetchVars, installVars, mainVars>>

ScriptStep ==
    \/ ScriptCat
    \/ ScriptFind
    \/ ScriptSort
    \/ ScriptLoop
    \/ \E written \in BOOLEAN : ScriptPrint(written)
    \/ ScriptExit

\* the bundles change between two runs of the script, once it is set up
TreeMayChange ==
    /\ mainPc = "lib"
    /\ hookPc = "idle" /\ hookCalls >= 1
    /\ scriptPc \in {"idle", "done"}
    /\ treeChanges < MaxTreeChanges
    /\ treeChanges' = treeChanges + 1
    /\ scriptPc' = "idle"
    /\ ScriptReset
    /\ UNCHANGED <<projEnv, strayFile>>
    /\ UNCHANGED <<claudeMd, settingsFile, hookFile, fsWrites, skillInit>>
    /\ UNCHANGED <<mdVars, hookVars, fetchVars, installVars, mainVars>>

\* a later installSkills run writes bundle n (install.mjs, lines 15-17)
InstallBundle(n, body) ==
    /\ TreeMayChange
    /\ n \notin unreadable
    /\ skillDir' = [skillDir EXCEPT ![n] = "dir"]
    /\ skillFile' = [skillFile EXCEPT ![n] = WriteFile(skillFile[n], body)]
    /\ UNCHANGED unreadable

\* bundle n is deleted
RemoveBundle(n) ==
    /\ TreeMayChange
    /\ skillFile[n].exists
    /\ skillDir' = [skillDir EXCEPT ![n] = "absent"]
    /\ skillFile' = [skillFile EXCEPT ![n] = NoFile]
    /\ unreadable' = unreadable \ {n}

\* the SKILL.md of bundle n loses its read permission
ProtectBundle(n) ==
    /\ TreeMayChange
    /\ skillFile[n].exists /\ n \notin unreadable
    /\ unreadable' = unreadable \cup {n}
    /\ UNCHANGED <<skillDir, skillFile>>

\* setupHook run once, before the script is used
GenerateHook ==
    /\ mainPc = "lib"
    /\ hookCalls = 0
    /\ setupHookCall
    /\ UNCHANGED <<fsVars, mdVars, fetchVars, installVars, mainVars, scriptVars>>

(***************************************************************************)
(* SpecScript: setupHook, then runs of the generated script on a project   *)
(* whose bundles change in between.                                        *)
(***************************************************************************)
PlainBody == <<Line("delim", <<>>), Line("name", <<" ", "react-query">>),
               Line("description", <<" ", "TanStack">>), Line("delim", <<>>),
               Line("text", <<"# Rules">>)>>

ScriptBodies ==
    { PlainBody,
      <<Line("text", <<"# Rules">>)>>,
      <<Line("delim", <<>>), Line("name", <<" ", "deploy">>),
        Line("description", <<" ", "Use when asked to ", "\"", "ship it", "\"", " today">>),
        Line("delim", <<>>)>>,
      <<Line("delim", <<>>), Line("name", <<" ", "paths">>),
        Line("description", <<" ", "Handles C:", "\\", "x">>), Line("delim", <<>>)>>,
      <<Line("delim", <<>>), Line("name", <<" ", "\"", "my skill", "\"">>),
        Line("description", <<" ", "\"", "100", "%", "s sure", "\"">>), Line("delim", <<>>)>>,
      <<Line("delim", <<>>), Line("name", <<" ", "nameless">>), Line("delim", <<>>)>> }

InitScript ==
    /\ claudeMd = NoFile
    /\ settingsFile = NoSettings
    /\ hookFile = NoHookFile
    /\ skillFile \in {f \in [Names -> {NoFile, TextFile(PlainBody)}] :
                        \A n \in Names \ ScriptNames : f[n] = NoFile}
    /\ skillDir = [n \in Names |-> IF skillFile[n].exists THEN "dir" ELSE "absent"]
    /\ skillInit = skillFile
    /\ fsWrites = {}
    /\ projEnv \in {"unset", "", "/proj", "/gone"}
    /\ strayFile \in {f \in [StrayKeys -> {NoFile, TextFile(PlainBody)}] :
                        \E k \in StrayKeys : ~f[k].exists}
    /\ unreadable = {}
    /\ treeChanges = 0
    /\ scriptPc = "idle"
    /\ found = <<>>
    /\ paths = <<>>
    /\ listed = <<>>
    /\ skillList = <<>>
    /\ stdout = <<>>
    /\ lastStatus = 0
    /\ exitStatus = -1
    /\ MdIdle /\ HookIdle /\ FetchIdle /\ InstallIdle /\ MainLib

NextScript ==
    \/ GenerateHook
    \/ HookWriteScript
    \/ HookChmod
    \/ HookPatchSettings
    \/ \E n \in ScriptNames, body \in ScriptBodies : InstallBundle(n, body)
    \/ \E n \in ScriptNames : RemoveBundle(n)
    \/ \E n \in ScriptNames : ProtectBundle(n)
    \/ HookInvoke
    \/ ScriptStep

SpecScript == InitScript /\ [][NextScript]_vars

\* the same, from a project with one bundle and no stray file; a script
\* that has been started is given the processor until it ends
InitScriptFair ==
    /\ InitScript
    /\ skillFile["a"].exists /\ ~skillFile["b"].exists
    /\ \A k \in StrayKeys : ~strayFile[k].exists
    /\ projEnv \in {"unset", "/gone"}

SpecScriptFair == InitScriptFair /\ [][NextScript]_vars /\ WF_vars(ScriptStep)

(***************************************************************************)
(* Claims about the generated hook script.                                 *)
(***************************************************************************)
\* the script has run to its end and its printf has written the payload
ScriptDone == scriptPc = "done" /\ lastStatus = 0

\* the files the script can see now
FilesNow == FilesBelow(Dir(projEnv), skillFile, strayFile)
FileNowAt(path) == CHOOSE f \in FilesNow : f.path = path

\* the files that make an entry of the list: found by the pattern, with a
\* name and a description the script can extract
Listable == {f.path : f \in {g \in FilesNow : MatchesPattern(g.path) /\ HasBoth(g)}}

\* the one increasing sequence of a set of paths
Increasing(S) ==
    CHOOSE sq \in [1..Cardinality(S) -> S] :
        \A i, j \in 1..Cardinality(S) : i < j => PathLess(sq[i], sq[j])

\* the entries of a sequence of paths, lines separated by nl
RECURSIVE EntriesOf(_, _)
EntriesOf(ps, nl) ==
    IF ps = <<>> THEN <<>>
    ELSE ListEntry(nl, GrepField(FileNowAt(Head(ps)), "name"),
                       GrepField(FileNowAt(Head(ps)), "description"))
         \o EntriesOf(Tail(ps), nl)

\* C16: every run of the generated script comes to its end, and it ends
\* with exit status 0 whatever the project holds: no bundle, no
\* .claude/skills directory, SKILL.md files that cannot be read or have no
\* header, CLAUDE_PROJECT_DIR unset, empty or naming no directory, and also
\* when writing the payload fails.
C16_AlwaysExitsZero ==
    /\ [](scriptPc = "done" => exitStatus = 0)
    /\ [](scriptPc # "done" => exitStatus = -1)
    /\ (scriptPc = "cat") ~> (scriptPc = "done")

\* a run has ended with status 0 although a SKILL.md could not be read and
\* printf failed, CLAUDE_PROJECT_DIR being unset
C16_Witness ==
    /\ scriptPc = "done" /\ exitStatus = 0
    /\ lastStatus = 1
    /\ unreadable # {}
    /\ projEnv = "unset"

\* the text a JSON string body denotes; ok = FALSE when it is no body of a
\* JSON string: a bare double quote, a control character, or a backslash
\* that starts no escape sequence
RECURSIVE JsonStringValue(_)
JsonStringValue(body) ==
    IF body = <<>> THEN [ok |-> TRUE, text |-> <<>>]
    ELSE IF Head(body) = "\\"
    THEN IF Len(body) >= 2 /\ body[2] \in {"n", "\"", "\\"}
         THEN LET rest == JsonStringValue(SubSeq(body, 3, Len(body)))
              IN  [ok |-> rest.ok,
                   text |-> <<IF body[2] = "n" THEN "\n" ELSE body[2]>> \o rest.text]
         ELSE [ok |-> FALSE, text |-> <<>>]
    ELSE IF Head(body) \in {"\"", "\n", "\t"}
    THEN [ok |-> FALSE, text |-> <<>>]
    ELSE LET rest == JsonStringValue(Tail(body))
         IN  [ok |-> rest.ok, text |-> <<Head(body)>> \o rest.text]

\* C17 (as claimed): whatever names and descriptions the bundles carry, a
\* double quote, a backslash or a percent sign included, the script writes
\* exactly one line, and this line is a JSON object whose only field,
\* additionalContext, is a string that denotes the instruction text.
C17_OneLineOfJson ==
    ScriptDone
        => /\ Len(stdout) >= 3
           /\ stdout[Len(stdout)] = "\n"
           /\ \A i \in 1..(Len(stdout) - 1) : stdout[i] # "\n"
           /\ stdout[1] = "{\"additionalContext\": \""
           /\ stdout[Len(stdout) - 1] = "\"}"
           /\ LET val == JsonStringValue(SubSeq(stdout, 2, Len(stdout) - 2))
              IN  /\ val.ok
                  /\ val.text = Instruction(<<"\n">>, EntriesOf(listed, <<"\n">>))

\* C18: the payload is a function of the files alone: whatever the order in
\* which find printed them, the list holds the bundles found, in the
\* increasing order of their SKILL.md paths, and the payload is built from
\* that list.
C18_ListSortedByPath ==
    ScriptDone
        => /\ listed = Increasing(Listable)
           /\ skillList = EntriesOf(Increasing(Listable), Esc)
           /\ stdout = Printf(Instruction(Esc, skillList))

\* find printed two bundles in decreasing order and both are listed
C18_Witness ==
    /\ ScriptDone
    /\ found = <<BundlePath("b"), BundlePath("a")>>
    /\ listed = <<BundlePath("a"), BundlePath("b")>>

\* C19: a run of the script lists the bundles that are on disk when it
\* runs, not those that were there when setupHook wrote the script: a
\* bundle (with a name and a description) is listed exactly if its SKILL.md
\* exists below $DIR at that moment; and the script setupHook writes is the
\* same text whatever bundles are installed.
C19_ListsWhatIsOnDiskAtRun ==
    /\ ScriptDone
         => \A n \in Names :
              (\E i \in 1..Len(listed) : listed[i] = BundlePath(n))
                <=> /\ Dir(projEnv) \in {".", "/proj"}
                    /\ skillFile[n].exists
                    /\ HasBoth([path |-> BundlePath(n), file |-> skillFile[n],
                                readable |-> n \notin unreadable])
    /\ hookFile.exists => hookFile.content = HOOK_SCRIPT

\* after setupHook one bundle was installed and another one removed; the
\* run lists the new one and not the removed one
C19_Witness ==
    /\ ScriptDone
    /\ ~skillInit["a"].exists /\ skillInit["b"].exists
    /\ listed = <<BundlePath("a")>>
    /\ ~skillFile["b"].exists

(***************************************************************************)
(* Claims about what setupClaudeMd writes.                                 *)
(***************************************************************************)
\* the rule block as the document shows it: from the marker line on
RuleBlock == <<"skill_evaluation", ":", "\n", " ", "rule">>

\* a document without its trailing white space
RECURSIVE WithoutTrailingSpace(_)
WithoutTrailingSpace(str) ==
    IF str # <<>> /\ str[Len(str)] \in {" ", "\n"}
    THEN WithoutTrailingSpace(SubSeq(str, 1, Len(str) - 1))
    ELSE str

\* C21 (as claimed): without the marker in CLAUDE.md, setupClaudeMd writes
\* the existing content without its trailing white space, one newline, the
\* rule block and one newline; for an absent, empty or white-space-only
\* document the rule block and one newline; the original content before its
\* trailing white space is a prefix of the result.
C21_SingleNewlineSeparator ==
    (mdCalls >= 1 /\ ~Includes(mdInit.data, MARKER))
        => LET kept == WithoutTrailingSpace(mdInit.data)
           IN  /\ claudeMd.exists
               /\ claudeMd.data = (IF kept # <<>>
                                   THEN kept \o <<"\n">> \o RuleBlock \o <<"\n">>
                                   ELSE RuleBlock \o <<"\n">>)
               /\ IsPrefix(kept, claudeMd.data)

\* C21 (amended): for non-empty content the result is the content without
\* its trailing white space, a newline, the block constant, which itself
\* starts with a newline (so an empty line stands between the old content
\* and the marker line), and one trailing newline; for an absent, empty or
\* white-space-only document it is the block without its leading newline,
\* and one trailing newline; the original content before its trailing white
\* space is a prefix of the result.
C21_BlankLineSeparator ==
    (mdCalls >= 1 /\ ~Includes(mdInit.data, MARKER))
        => LET kept == WithoutTrailingSpace(mdInit.data)
           IN  /\ claudeMd.exists
               /\ claudeMd.data = (IF kept # <<>>
                                   THEN kept \o <<"\n", "\n">> \o RuleBlock \o <<"\n">>
                                   ELSE RuleBlock \o <<"\n">>)
               /\ IsPrefix(kept, claudeMd.data)

\* a document that ended with white space has been patched
C21_Witness ==
    /\ mdCalls = 1
    /\ mdInit.data = <<"x", " ", "\n">>
    /\ claudeMd.data = <<"x", "\n", "\n", "skill_evaluation", ":", "\n", " ", "rule", "\n">>

\* C22: when CLAUDE.md holds the marker anywhere, setupClaudeMd returns
\* without writing and the document is the same before and after the call.
C22_MarkerMeansNoWrite ==
    (mdCalls >= 1 /\ Includes(mdInit.data, MARKER))
        => /\ claudeMd = mdInit
           /\ fsWrites = {}
           /\ mdLog = "skipped"

\* the marker stands in the middle of the document
C22_Witness ==
    /\ mdCalls = 1
    /\ mdInit.exists /\ Len(mdInit.data) = 3
    /\ MatchesAt(mdInit.data, MARKER, 2)
    /\ claudeMd = mdInit /\ mdLog = "skipped"

(***************************************************************************)
(* SpecParse: fetchSkills on a catalog of one directory whose SKILL.md is  *)
(* an arbitrary body; parseFrontmatter is applied to it.                   *)
(***************************************************************************)
ParseLines ==
    { Line("delim", <<>>),
      Line("name", <<" ", "react-query", " ">>),
      Line("name", <<>>),
      Line("description", <<" ", "\"", "TanStack", "\"">>),
      Line("description", <<" ">>),
      Line("blank", <<>>),
      Line("text", <<"# Rules">>) }

ParseBodies == SeqsUpTo(ParseLines, MaxBodyLines)

InitParse ==
    /\ FsEmpty
    /\ AuthIdle
    /\ listResp = [status |-> 200, entries |-> <<[name |-> "a", type |-> "dir"]>>]
    /\ fetchPc = "idle"
    /\ tasks = <<>>
    /\ results = <<>>
    /\ settleOrder = <<>>
    /\ warnings = <<>>
    /\ fetchErr = "none"
    /\ fetched = <<>>
    /\ MdIdle /\ HookIdle /\ InstallIdle /\ MainLib /\ ScriptIdle

NextParse ==
    \/ fetchSkills
    \/ FetchListing
    \/ \E body \in ParseBodies : FetchTask(1, [kind |-> "ok", content |-> body])
    \/ FetchReturn

SpecParse == InitParse /\ [][NextParse]_vars

\* the value of the first line of the header that starts with key:, without
\* the white space around it; <<>> when the body has no header, the header
\* has no such line, or the line holds nothing but white space
HeaderValue(content, key) ==
    LET m == HeaderBlock(content)
        at == {i \in 1..Len(m.block) : m.block[i].k = key}
    IN  IF ~m.found \/ at = {} THEN <<>>
        ELSE Trim(m.block[CHOOSE i \in at : \A h \in at : i <= h].v)

\* C23 (as claimed): parseFrontmatter never fails; the display name is the
\* trimmed value of the header's name line, or the directory name when the
\* body has no header or the header has no name line that is not empty; the
\* summary is the trimmed value of the header's description line, or the
\* empty string; whatever the header, the directory stays in the result of
\* fetchSkills.
C23_HeaderFallbacks ==
    fetchPc = "returned"
        => /\ Len(fetched) = 1
           /\ fetched[1].dirName = "a"
           /\ LET body == fetched[1].content
              IN  /\ fetched[1].name = (IF HeaderValue(body, "name") # <<>>
                                        THEN HeaderValue(body, "name") ELSE <<"a">>)
                  /\ fetched[1].description = HeaderValue(body, "description")

\* the SKILL.md of a fetched descriptor, as the file the hook script reads
\* once the bundle is installed
InstalledBody(skill) == [file |-> TextFile(skill.content), readable |-> TRUE]

\* C24 (as claimed): for every SKILL.md body, the name and the summary the
\* hook script extracts from the installed file are the displayName and the
\* summary parseFrontmatter computed for the catalog (a name the script finds
\* empty standing for the directory name).
C24_HookAgreesWithCatalog ==
    fetchPc = "returned" /\ Len(fetched) = 1
        => LET f == InstalledBody(fetched[1])
               hookName == GrepField(f, "name")
           IN  /\ fetched[1].name = (IF hookName = <<>> THEN <<fetched[1].dirName>>
                                     ELSE hookName)
               /\ fetched[1].description = GrepField(f, "description")

\* the paths the list of the run holds
ListedPaths == {listed[i] : i \in 1..Len(listed)}

\* the installed bundles of the project: <root>/.claude/skills/<n>/SKILL.md
InstalledBundles == {BundlePath(n) : n \in {m \in Names : skillFile[m].exists}}

\* C25 (as claimed): with CLAUDE_PROJECT_DIR naming the project root, the
\* list of a run holds one entry for each SKILL.md at
\* <root>/.claude/skills/<name>/SKILL.md, also for one that lacks a name or
\* a description, and no entry for a SKILL.md anywhere else (in a nested
\* project, deeper below .claude/skills).
C25_ExactlyTheInstalledBundles ==
    ScriptDone /\ projEnv = "/proj"
        => /\ ListedPaths = InstalledBundles
           /\ Len(listed) = Cardinality(ListedPaths)

\* C25, first half alone: every installed bundle is listed
C25_EveryBundleListed ==
    ScriptDone /\ projEnv = "/proj" => InstalledBundles \subseteq ListedPaths

\* C25, second half alone: nothing but installed bundles is listed
C25_NothingElseListed ==
    ScriptDone /\ projEnv = "/proj" => ListedPaths \subseteq InstalledBundles

(***************************************************************************)
(* Claims about the order and the result of setupHook's writes.            *)
(***************************************************************************)
\* the hook script is on disk with its full content and executable
ScriptInPlace == hookFile = [exists |-> TRUE, content |-> HOOK_SCRIPT, mode |-> "755"]

\* C26: in every state of a setupHook run, settings.json has been written by
\* the run only if the hook script is already on disk with its full content
\* and mode 755: the script is written and chmod'ed before the settings are
\* read and written.
C26_ScriptBeforeSettings ==
    /\ hookPc = "settings" => ScriptInPlace
    /\ "settings.json" \in fsWrites => ScriptInPlace
    /\ hookPc \in {"writeScript", "chmod"} => settingsWrites = 0 /\ settingsFile = settingsBefore

\* a run has written its registration to settings.json
C26_Witness ==
    /\ HookFinished /\ hookCalls = 1 /\ LastOutcome = "ok"
    /\ settingsWrites = 1
    /\ settingsFile # settingsInit
    /\ RegistrationsOf(settingsFile.val, HookPath(targetDir)) # {}
    /\ ScriptInPlace

\* C27 (as claimed): for every settings.json that parses as JSON, whatever
\* its top-level value, its hooks member and its UserPromptSubmit member
\* are, a setupHook call that returns without error leaves a settings.json
\* that holds a UserPromptSubmit registration of the hook script and still
\* holds what the document held before: its top-level members, the other
\* members of hooks, the UserPromptSubmit entries.
C27_AnyShapeRegistered ==
    (/\ HookFinished /\ LastOutcome = "ok"
     /\ settingsBefore.exists /\ settingsBefore.valid)
        => /\ settingsFile.exists /\ settingsFile.valid
           /\ FilenameRegistrations(settingsFile.val) # {}
           /\ OtherMembers(settingsFile.val, "hooks") = OtherMembers(settingsBefore.val, "hooks")
           /\ Len(OtherMembers(Prop(settingsBefore.val, "hooks"), "UserPromptSubmit"))
                <= Len(OtherMembers(Prop(settingsFile.val, "hooks"), "UserPromptSubmit"))
           /\ IsPrefix(UpsEntries(settingsBefore.val), UpsEntries(settingsFile.val))

(***************************************************************************)
(* Claims about the selection prompt and the stages of main.               *)
(***************************************************************************)
\* C28 (as claimed): when main shows the selection prompt, every descriptor
\* fetchSkills returned is one of the choices, exactly once and in the
\* order returned, whatever category it has or lacks.
C28_EveryDescriptorOffered ==
    mainPc = "prompt" => Offered(promptImpl, fetched) = fetched

\* installSkills has returned and every selected bundle is on disk
BundlesInstalled ==
    /\ installPc = "idle" /\ installRuns = 1 /\ selected # <<>>
    /\ \A k \in 1..Len(selected) :
         skillFile[selected[k].dirName] = TextFile(selected[k].content)

\* C29: when bundles were selected and the confirmation is declined, the
\* bundles are installed, the run exits with status 0, and the hook script,
\* settings.json and CLAUDE.md are neither created nor modified; when it is
\* accepted the stages run in the order installSkills, setupHook,
\* setupClaudeMd, each one after the one before it has completed.
C29_DeclineAndStageOrder ==
    /\ (mainPc \in {"finish", "exited"} /\ installPc = "idle" /\ installRuns = 1 /\ hookCalls = 0)
         => /\ BundlesInstalled
            /\ hookFile = NoHookFile /\ settingsFile = settingsInit /\ claudeMd = mdInit
            /\ fsWrites \cap {"hook", "settings.json", "CLAUDE.md"} = {}
            /\ hookPc = "idle" /\ mdCalls = 0
            /\ mainPc = "exited" => exitCode = 0
    /\ installPc = "loop" => (hookPc = "idle" /\ hookCalls = 0 /\ mdCalls = 0)
    /\ (hookPc # "idle" \/ hookCalls >= 1) => BundlesInstalled
    /\ hookPc # "idle" => mdCalls = 0
    /\ mdCalls >= 1 => /\ BundlesInstalled
                       /\ HookFinished /\ hookCalls = 1 /\ LastOutcome = "ok"
                       /\ ScriptInPlace /\ "settings.json" \in fsWrites

\* two bundles are installed and the confirmation has just been declined
C29_Witness ==
    /\ mainPc = "finish" /\ hookCalls = 0
    /\ Len(selected) = 2 /\ BundlesInstalled
    /\ mdInit.exists

(***************************************************************************)
(* The setupHook variant that also registers a PreToolUse prompt hook.     *)
(***************************************************************************)
PRETOOL_PROMPT == <<"REMINDER", ": This project has skills installed in .claude/skills/.">>

PromptHandler(prompt) ==
    JObj(<< <<"type", JStr(<<"prompt">>)>>, <<"prompt", JStr(prompt)>>, <<"timeout", JNum(15)>> >>)

\* const pretoolHookEntry = { matcher: "Edit|Write|NotebookEdit", hooks: [...] }
PretoolHookEntry ==
    JObj(<< <<"matcher", JStr(<<"Edit|Write|NotebookEdit">>)>>,
            <<"hooks", JArr(<<PromptHandler(PRETOOL_PROMPT)>>)>> >>)

\* h.type === "prompt" && h.prompt?.includes("REMINDER")
PromptHandlerMatches(h) ==
    IF IsNullish(h) THEN "throw"
    ELSE IF Prop(h, "type") # JStr(<<"prompt">>) THEN "false"
    ELSE LET pr == Prop(h, "prompt")
         IN  IF IsNullish(pr) THEN "false"
             ELSE IF pr.t = "str"
                  THEN (IF Includes(pr.v, <<"REMINDER">>) THEN "true" ELSE "false")
             ELSE IF pr.t = "arr"
                  THEN (IF \E i \in 1..Len(pr.v) : pr.v[i] = JStr(<<"REMINDER">>)
                        THEN "true" ELSE "false")
             ELSE "throw"

RECURSIVE SomePromptHandler(_, _)
SomePromptHandler(hs, i) ==
    IF i > Len(hs) THEN "false"
    ELSE LET r == PromptHandlerMatches(hs[i])
         IN  IF r = "false" THEN SomePromptHandler(hs, i + 1) ELSE r

\* entry.hooks?.some(...)
PretoolEntryMatches(entry) ==
    IF IsNullish(entry) THEN "throw"
    ELSE LET hs == Prop(entry, "hooks")
         IN  IF IsNullish(hs) THEN "false"
             ELSE IF hs.t # "arr" THEN "throw"
             ELSE SomePromptHandler(hs.v, 1)

\* settings.hooks.PreToolUse.some(...) over es[i..]
RECURSIVE SomePretoolEntry(_, _)
SomePretoolEntry(es, i) ==
    IF i > Len(es) THEN "false"
    ELSE LET r == PretoolEntryMatches(es[i])
         IN  IF r = "false" THEN SomePretoolEntry(es, i + 1) ELSE r

\* the PreToolUse branch, after the UserPromptSubmit branch
AddPretool(settings) ==
    LET hooks == Prop(settings, "hooks")
        pre   == Prop(hooks, "PreToolUse")
        with(newPre) == SetProp(settings, "hooks", SetProp(hooks, "PreToolUse", newPre))
    IN  IF IsArray(pre)
        THEN LET alreadyInstalled == SomePretoolEntry(pre.v, 1)
             IN  CASE alreadyInstalled = "throw" -> Threw
                   [] alreadyInstalled = "true"  -> Patched(settings)
                   [] OTHER ->
                        Patched(with([pre EXCEPT !.v = Append(pre.v, PretoolHookEntry)]))
        ELSE IF CanSetProp(hooks)
             THEN Patched(with(JArr(<<PretoolHookEntry>>)))
             ELSE Threw

\* the settings value the variant writes, or a thrown TypeError
PatchSettingsPretool(file, hookPath) ==
    LET ups == PatchSettings(file, hookPath)
    IN  IF ups.threw THEN Threw ELSE AddPretool(ups.settings)

\* read, parse, patch both events, write back, report
HookPatchSettingsPretool ==
    /\ hookPc = "settings"
    /\ LET r == PatchSettingsPretool(settingsFile, HookPath(targetDir))
       IN  IF r.threw
           THEN /\ hookOutcomes' = Append(hookOutcomes, "TypeError")
                /\ UNCHANGED <<settingsFile, fsWrites, settingsWrites, hookLog>>
           ELSE /\ settingsFile' = Stringify2(r.settings)
                /\ fsWrites' = fsWrites \cup {"settings.json"}
                /\ settingsWrites' = settingsWrites + 1
                /\ hookOutcomes' = Append(hookOutcomes, "ok")
                /\ hookLog' = <<"Hook installed", "Hook installed: PreToolUse",
                                "Settings updated">>
    /\ hookPc' = "idle"
    /\ UNCHANGED <<claudeMd, hookFile, skillDir, skillFile, skillInit>>
    /\ UNCHANGED <<targetDir, hookCalls, settingsInit, settingsBefore>>
    /\ UNCHANGED <<mdVars, fetchVars, installVars, mainVars>>
    /\ UNCHANGED scriptVars

\* PreToolUse entries a settings.json may hold
PretoolPool ==
    { JObj(<< <<"matcher", JStr(<<"Bash">>)>>,
              <<"hooks", JArr(<<CommandHandler(<<"/proj/scripts/", "fmt.sh">>)>>)>> >>),
      PretoolHookEntry,
      JObj(<< <<"matcher", JStr(<<"Bash">>)>>,
              <<"hooks", JArr(<<PromptHandler(<<"REMINDER", ": run the tests">>)>>)>> >>),
      JObj(<< <<"matcher", JStr(<<"Write">>)>>,
              <<"hooks", JArr(<<PromptHandler(<<"Check the style guide">>)>>)>> >>),
      JObj(<< <<"matcher", JStr(<<"Bash">>)>> >>),
      JNull,
      Entry(<<JObj(<< <<"type", JStr(<<"prompt">>)>>, <<"prompt", JNum(1)>> >>)>>) }

PretoolHooksValues ==
    {JArr(<<>>)}
    \cup { JObj(ups \o pre) :
             ups \in {<<>>,
                      << <<"UserPromptSubmit", JArr(<<>>)>> >>,
                      << <<"UserPromptSubmit", JArr(<<HookEntry(HookPath("/proj"))>>)>> >>,
                      << <<"UserPromptSubmit",
                           JArr(<<Entry(<<CommandHandler(<<"/proj/scripts/", "lint.sh">>)>>)>>)>> >>},
             pre \in {<<>>, << <<"PreToolUse", JStr(<<"x">>)>> >>}
                     \cup { << <<"PreToolUse", JArr(es)>> >> :
                              es \in SeqsUpTo(PretoolPool, MaxPreLen) } }

InitHookPretool ==
    /\ claudeMd = NoFile
    /\ settingsFile \in {NoSettings, JsonText("compact", JObj(<<PermissionsMember>>))}
                        \cup { JsonText("indent2", JObj(<< <<"hooks", h>> >>)) :
                                 h \in PretoolHooksValues }
    /\ hookFile = NoHookFile
    /\ skillDir = [n \in Names |-> "absent"]
    /\ skillFile = [n \in Names |-> NoFile]
    /\ skillInit = skillFile
    /\ fsWrites = {}
    /\ HookIdle
    /\ MdIdle /\ FetchIdle /\ InstallIdle /\ MainLib /\ ScriptIdle

NextHookPretool == setupHook \/ HookWriteScript \/ HookChmod \/ HookPatchSettingsPretool

SpecHookPretool == InitHookPretool /\ [][NextHookPretool]_vars

(***************************************************************************)
(* Claims about the PreToolUse registration.                               *)
(***************************************************************************)
\* the entries of hooks.PreToolUse, <<>> when there is no such array
PretoolEntries(val) ==
    LET hooks == Prop(val, "hooks")
        pre   == Prop(hooks, "PreToolUse")
    IN  IF val.t = "obj" /\ hooks.t = "obj" /\ pre.t = "arr" THEN pre.v ELSE <<>>

\* the positions of the PreToolUse entries that hold the reminder prompt
ReminderEntries(val) ==
    {i \in 1..Len(PretoolEntries(val)) : PretoolEntries(val)[i] = PretoolHookEntry}

\* a settings document whose hooks member is absent or an object
HooksWellFormed(file) ==
    ~file.exists \/ (IsJsonObject(file) /\ Prop(file.val, "hooks").t \in {"undef", "obj"})

\* every setupHook call so far has returned normally
AllReturned == \A i \in 1..Len(hookOutcomes) : hookOutcomes[i] = "ok"

\* C30 (as claimed): in the variant with the PreToolUse prompt hook, after
\* any number of setupHook runs on a settings.json that held the reminder
\* entry at most once, hooks.PreToolUse holds exactly one entry with the
\* reminder prompt and the matcher Edit|Write|NotebookEdit, the PreToolUse
\* entries that were there before come first, unchanged and in order, and
\* the UserPromptSubmit registration is there whether or not the PreToolUse
\* one had to be added.
C30_OneReminderEntry ==
    (/\ HookFinished /\ AllReturned
     /\ HooksWellFormed(settingsInit)
     /\ Cardinality(ReminderEntries(settingsInit.val)) <= 1)
        => /\ Cardinality(ReminderEntries(settingsFile.val)) = 1
           /\ IsPrefix(PretoolEntries(settingsInit.val), PretoolEntries(settingsFile.val))
           /\ FilenameRegistrations(settingsFile.val) # {}

\* C30 for a hooks member of any shape
C30_OneReminderEntryAnyHooks ==
    (/\ HookFinished /\ AllReturned
     /\ \A i \in 1..Len(PretoolEntries(settingsInit.val)) :
          PretoolEntryMatches(PretoolEntries(settingsInit.val)[i]) = "false")
        => Cardinality(ReminderEntries(settingsFile.val)) = 1

\* C30 with a reminder entry being any entry the code takes for one
C30_OneEntryTakenForReminder ==
    (/\ HookFinished /\ AllReturned
     /\ HooksWellFormed(settingsInit)
     /\ Cardinality({i \in 1..Len(PretoolEntries(settingsInit.val)) :
                       PretoolEntryMatches(PretoolEntries(settingsInit.val)[i]) = "true"}) <= 1)
        => /\ Cardinality({i \in 1..Len(PretoolEntries(settingsFile.val)) :
                             PretoolEntryMatches(PretoolEntries(settingsFile.val)[i]) = "true"}) = 1
           /\ IsPrefix(PretoolEntries(settingsInit.val), PretoolEntries(settingsFile.val))
           /\ FilenameRegistrations(settingsFile.val) # {}

====
